---- MODULE Spec2Model ----
(***************************************************************************)
(* A model of the actor-ownership registry of SMARTS:                      *)
(*   smarts/core/vehicle_index.py   (VehicleIndex)                         *)
(* The record table _controlled_by is a numpy structured array: a          *)
(* sequence of rows, masked reads return copies in table order, and a      *)
(* masked assignment broadcasts one tuple over every selected row.         *)
(***************************************************************************)
EXTENDS Integers, Sequences, FiniteSets, TLC

\* ---------------------------------------------------------------- bounds
\* The table may hold at most MaxRecords rows (np.insert is unbounded).
MaxRecords == 2

\* ---------------------------------------------------------------- inputs
VehicleIds == {"v1", "v2"}
AgentIds == {"A", "B"}
Poses == {1, 2}
Speeds == {0, 1}
Routes == {"r1", "r2"}
None == "None"

\* ActorRole values the registry stores (smarts/core/actor.py)
EgoAgent == "EgoAgent"
SocialAgent == "SocialAgent"
Social == "Social"
ActorRole == {Social, SocialAgent, EgoAgent}

\* ------------------------------------------------------------ id packing
\* The empty byte string b"" that marks "no owner" / "no shadower".
Empty == <<>>

\* _2id: the fixed-length key (b"$" + id).zfill(127); never equal to b"".
_2id(id_) == <<"$", id_>>

VARIABLES
    _controlled_by,      \* the record table, newest row first
    _vehicles,           \* {fixed vehicle id: Vehicle}
    _2id_to_id,          \* {fixed id: original id}, vehicles and agents
    _controller_states,  \* fixed vehicle ids that have a ControllerState
    sensor_states,       \* sensor manager: {vehicle id: route of its plan}
    last,                \* the last operation called and its outcome
    _ego_agent_ids,                  \* AgentManager: ego agents
    _social_agent_ids,               \* social agents
    _pending_agent_ids,              \* agents waiting for a vehicle
    _pending_social_agent_ids,       \* social agents of the scenario not yet emitted
    _agent_interfaces,               \* {agent id: action space of its interface}
    _social_agent_data_models,       \* {agent id: SocialAgent data model}
    _remote_social_agents,           \* {agent id: handle}, in insertion order
    _remote_social_agents_action,    \* {agent id: future}
    _reserved_social_agent_actions,  \* {agent id: action}
    _agent_buffer,       \* controller pool: the handles acquired so far
    provider_actors,     \* provider set: the calls the last _add_agent made
    tick,                \* number of fetch_agent_actions calls that have returned
    pc,                  \* "idle", or "fetching" while fetch_agent_actions waits
    actions              \* the ego actions a waiting fetch was given, then what it returned

\* The registry and the sensor manager.
regvars == <<_controlled_by, _vehicles, _2id_to_id, _controller_states, sensor_states>>

\* The agent manager, the controller pool and the provider set.
amvars == <<_ego_agent_ids, _social_agent_ids, _pending_agent_ids,
            _pending_social_agent_ids, _agent_interfaces, _social_agent_data_models,
            _remote_social_agents, _remote_social_agents_action,
            _reserved_social_agent_actions, _agent_buffer, provider_actors,
            tick, pc, actions>>

vars == <<_controlled_by, _vehicles, _2id_to_id, _controller_states,
          sensor_states, last, amvars>>

\* ------------------------------------------------------- dict operations
EmptyDict == [k \in {} |-> None]

Put(d, k, v) == [x \in (DOMAIN d) \cup {k} |-> IF x = k THEN v ELSE d[x]]

Pop(d, k) == [x \in (DOMAIN d) \ {k} |-> d[x]]

PopAll(d, ks) == [x \in (DOMAIN d) \ ks |-> d[x]]

\* ------------------------------------------------------ numpy operations
\* tbl["vehicle_id"] == vehicle_id: the row numbers the mask selects.
VIndex(tbl, vehicle_id) == {i \in 1..Len(tbl) : tbl[i].vehicle_id = vehicle_id}

Min(S) == CHOOSE x \in S : \A y \in S : x <= y

\* tbl[mask][0]: the first selected row.
First(tbl, idx) == tbl[Min(idx)]

\* tbl[mask] = tuple(entity): one tuple broadcast over every selected row.
AssignMasked(tbl, idx, entity) ==
    [i \in 1..Len(tbl) |-> IF i \in idx THEN entity ELSE tbl[i]]

\* tbl[mask]: a copy of the selected rows, in table order.
RECURSIVE Selected(_, _, _)
Selected(tbl, idx, i) ==
    IF i > Len(tbl) THEN <<>>
    ELSE (IF i \in idx THEN <<tbl[i]>> ELSE <<>>) \o Selected(tbl, idx, i + 1)

\* np.insert(tbl, 0, tuple(entity))
Insert0(tbl, entity) == <<entity>> \o tbl

\* tbl[~np.isin(tbl["vehicle_id"], vehicle_ids)]
RemoveRows(tbl, vehicle_ids) ==
    SelectSeq(tbl, LAMBDA r : r.vehicle_id \notin vehicle_ids)

\* ------------------------------------------------------------- chassis
Box == "BoxChassis"
Ackermann == "AckermannChassis"

\* BoxChassis(pose=..., speed=..., ...)
BoxChassis(pose, speed) == [kind |-> Box, pose |-> pose, speed |-> speed]

\* AckermannChassis(pose=..., bullet_client=...): built at rest.
AckermannChassis(pose) == [kind |-> Ackermann, pose |-> pose, speed |-> 0]

\* chassis.inherit_physical_values(other): pose and speed of the other chassis.
inherit_physical_values(chassis, other) ==
    [chassis EXCEPT !.pose = other.pose, !.speed = other.speed]

\* vehicle.swap_chassis(chassis): the new chassis inherits the old one's
\* physical values and replaces it.
swap_chassis(vehicle, chassis) ==
    [vehicle EXCEPT !.chassis = inherit_physical_values(chassis, vehicle.chassis)]

\* Vehicle.build_agent_vehicle / Vehicle.build_social_vehicle
Vehicle(id_, chassis) == [id |-> id_, chassis |-> chassis]

\* The pose a vehicle rebuilt from its plan starts at, before it inherits the
\* old chassis' values: the start of the plan's mission, no pose of Poses.
MissionStart == "mission start"

\* ------------------------------------------------------ operation outcome
\* What a hand-off records of the vehicle it is given: the pose and speed the
\* vehicle had before it, and the kind of hand-off.
Kinematics(vehicle, dynamic, hijacking) ==
    [valid |-> TRUE, pose |-> vehicle.chassis.pose, speed |-> vehicle.chassis.speed,
     dynamic |-> dynamic, hijacking |-> hijacking]

NoKinematics ==
    [valid |-> FALSE, pose |-> 0, speed |-> 0, dynamic |-> FALSE, hijacking |-> FALSE]

Ok == "ok"

\* The agent and boid flag a call was given.
Args(agent_id, boid) == [agent_id |-> agent_id, boid |-> boid]

NoArgs == Args(None, FALSE)

\* The call that was made last: the operation, the vehicle it was given, what
\* it raised (Ok when it returned), what it returned, and for a hand-off the
\* kinematic state the vehicle had before it; `removed` is the list of vehicle
\* ids teardown_vehicles_by_owner_ids returns; `dones` is what observe returns.
Outcome(op, vehicle_id, error, ret, before) ==
    [op |-> op, vehicle_id |-> vehicle_id, error |-> error, ret |-> ret, before |-> before,
     args |-> NoArgs, removed |-> {}, dones |-> EmptyDict, traffic |-> <<>>]

\* The outcome of a call that gave an agent a vehicle to shadow or to control
\* and returned.
Returned(op, vehicle_id, agent_id, boid, before) ==
    [Outcome(op, vehicle_id, Ok, None, before) EXCEPT !.args = Args(agent_id, boid)]

Init ==
    /\ _controlled_by = <<>>
    /\ _vehicles = EmptyDict
    /\ _2id_to_id = EmptyDict
    /\ _controller_states = {}
    /\ sensor_states = EmptyDict
    /\ last = Outcome("init", None, Ok, None, NoKinematics)
    /\ _ego_agent_ids = {}
    /\ _social_agent_ids = {}
    /\ _pending_agent_ids = {}
    /\ _pending_social_agent_ids = {}
    /\ _agent_interfaces = EmptyDict
    /\ _social_agent_data_models = EmptyDict
    /\ _remote_social_agents = <<>>
    /\ _remote_social_agents_action = EmptyDict
    /\ _reserved_social_agent_actions = EmptyDict
    /\ _agent_buffer = <<>>
    /\ provider_actors = <<>>
    /\ tick = 0
    /\ pc = "idle"
    /\ actions = EmptyDict

\* ------------------------------------------------------- record updates
\* _ControlEntity(...) built by _enfranchise_agent
EnfranchisedEntity(vehicle_id, agent_id, boid, hijacking, position) ==
    [vehicle_id |-> vehicle_id,
     owner_id |-> agent_id,
     role |-> IF hijacking THEN SocialAgent ELSE EgoAgent,
     shadower_id |-> Empty,
     is_boid |-> boid,
     is_hijacked |-> hijacking,
     position |-> position]

\* _ControlEntity(...) built by build_social_vehicle
SocialEntity(vehicle_id, owner_id, role, position) ==
    [vehicle_id |-> vehicle_id,
     owner_id |-> owner_id,
     role |-> role,
     shadower_id |-> Empty,
     is_boid |-> FALSE,
     is_hijacked |-> FALSE,
     position |-> position]

\* A begin-shadow that also takes the vehicle over.
ShadowedEntity_TakesOwnership(entity, agent_id, boid) ==
    [entity EXCEPT !.shadower_id = agent_id, !.owner_id = agent_id, !.is_boid = boid]

\* entity._replace(shadower_id=agent_id, is_boid=boid)
ShadowedEntity(entity, agent_id, boid) ==
    [entity EXCEPT !.shadower_id = agent_id, !.is_boid = boid]

\* A hand-off that forgets to clear the shadower.
SwitchedEntity_KeepsShadower(entity, agent_id, boid, hijacking) ==
    [entity EXCEPT !.role = IF hijacking THEN SocialAgent ELSE EgoAgent,
                   !.owner_id = agent_id,
                   !.is_boid = boid,
                   !.is_hijacked = hijacking]

\* entity._replace(role=..., owner_id=agent_id, shadower_id=b"", ...)
SwitchedEntity(entity, agent_id, boid, hijacking) ==
    [entity EXCEPT !.role = IF hijacking THEN SocialAgent ELSE EgoAgent,
                   !.owner_id = agent_id,
                   !.shadower_id = Empty,
                   !.is_boid = boid,
                   !.is_hijacked = hijacking]

\* entity._replace(shadower_id=b"")
UnshadowedEntity(entity) == [entity EXCEPT !.shadower_id = Empty]

\* A relinquish that leaves the record hijacked.
RelinquishedEntity_KeepsHijacked(entity) ==
    [entity EXCEPT !.role = Social,
                   !.owner_id = Empty,
                   !.shadower_id = Empty,
                   !.is_boid = FALSE]

\* A relinquish that leaves the boid flag set.
RelinquishedEntity_KeepsBoid(entity) ==
    [entity EXCEPT !.role = Social,
                   !.owner_id = Empty,
                   !.shadower_id = Empty,
                   !.is_hijacked = FALSE]

\* A relinquish that leaves the owner in place.
RelinquishedEntity_KeepsOwner(entity) ==
    [entity EXCEPT !.role = Social,
                   !.shadower_id = Empty,
                   !.is_boid = FALSE,
                   !.is_hijacked = FALSE]

\* entity._replace(role=ActorRole.Social, owner_id=b"", shadower_id=b"", ...)
RelinquishedEntity(entity) ==
    [entity EXCEPT !.role = Social,
                   !.owner_id = Empty,
                   !.shadower_id = Empty,
                   !.is_boid = FALSE,
                   !.is_hijacked = FALSE]

\* --------------------------------------------------------------- queries
\* Rows owned by owner_id, with include_shadowers also those it shadows
\* (the mask of vehicle_ids_by_owner_id).
owner_rows(tbl, owner_id, include_shadowers) ==
    {i \in 1..Len(tbl) :
        \/ tbl[i].owner_id = _2id(owner_id)
        \/ include_shadowers /\ tbl[i].shadower_id = _2id(owner_id)}

\* What a query returns, or the exception it raises.
Returns(value) == [error |-> Ok, value |-> value]

Raises(error, value) == [error |-> error, value |-> value]

\* The vehicle ids of the selected rows mapped back through _2id_to_id, as a
\* set; a missing mapping raises KeyError.
OriginalIds(tbl, idmap, rows) ==
    LET fids == {tbl[i].vehicle_id : i \in rows}
    IN  IF fids \subseteq DOMAIN idmap
        THEN Returns({idmap[f] : f \in fids})
        ELSE Raises("KeyError", {})

\* vehicle_ids()
vehicle_ids(tbl, idmap) == OriginalIds(tbl, idmap, 1..Len(tbl))

\* agent_vehicle_ids()
agent_vehicle_ids(tbl, idmap) ==
    OriginalIds(tbl, idmap, {i \in 1..Len(tbl) : tbl[i].role \in {EgoAgent, SocialAgent}})

\* vehicle_ids_by_owner_id(owner_id, include_shadowers)
vehicle_ids_by_owner_id(tbl, idmap, owner_id, include_shadowers) ==
    OriginalIds(tbl, idmap, owner_rows(tbl, owner_id, include_shadowers))

\* vehicle_is_hijacked_or_shadowed(vehicle_id)
vehicle_is_hijacked_or_shadowed(tbl, vehicle_id) ==
    LET idx == VIndex(tbl, _2id(vehicle_id))
    IN  IF idx = {} THEN Returns(<<FALSE, FALSE>>)
        ELSE IF Cardinality(idx) # 1 THEN Raises("AssertionError", <<FALSE, FALSE>>)
        ELSE Returns(<<First(tbl, idx).is_hijacked, First(tbl, idx).shadower_id # Empty>>)

\* `return self._2id_to_id[ids[0]]` without the test.
FirstId_Unguarded(idmap, ids) ==
    IF Len(ids) = 0 THEN Raises("IndexError", None)
    ELSE IF ids[1] \notin DOMAIN idmap THEN Raises("KeyError", None)
    ELSE Returns(idmap[ids[1]])

\* `if ids: return self._2id_to_id[ids[0]]` over the array of ids read from the
\* rows of a vehicle: an empty array and an array of one empty id are false,
\* an array of more than one element has no truth value.
FirstId(idmap, ids) ==
    IF Len(ids) = 0 THEN Returns(None)
    ELSE IF Len(ids) > 1 THEN Raises("ValueError", None)
    ELSE IF ids[1] = Empty THEN Returns(None)
    ELSE IF ids[1] \notin DOMAIN idmap THEN Raises("KeyError", None)
    ELSE Returns(idmap[ids[1]])

\* The owner ids of the rows of a vehicle, in table order.
RECURSIVE OwnerIds(_)
OwnerIds(rows) ==
    IF rows = <<>> THEN <<>> ELSE <<Head(rows).owner_id>> \o OwnerIds(Tail(rows))

RECURSIVE ShadowerIds(_)
ShadowerIds(rows) ==
    IF rows = <<>> THEN <<>> ELSE <<Head(rows).shadower_id>> \o ShadowerIds(Tail(rows))

\* owner_id_from_vehicle_id(vehicle_id)
owner_id_from_vehicle_id(tbl, idmap, vehicle_id) ==
    FirstId(idmap, OwnerIds(Selected(tbl, VIndex(tbl, _2id(vehicle_id)), 1)))

\* shadower_id_from_vehicle_id(vehicle_id)
shadower_id_from_vehicle_id(tbl, idmap, vehicle_id) ==
    FirstId(idmap, ShadowerIds(Selected(tbl, VIndex(tbl, _2id(vehicle_id)), 1)))

\* vehicle_position(vehicle_id)
vehicle_position(tbl, vehicle_id) ==
    LET idx == VIndex(tbl, _2id(vehicle_id))
    IN  IF idx = {} THEN Returns(None) ELSE Returns(First(tbl, idx).position)

\* ------------------------------------------------------------ operations
\* _enfranchise_agent: sensor state, controller state, vehicle, both id
\* mappings, and a new row at position 0.
_enfranchise_agent(tbl, vehs, idmap, ctrl, ss, agent_id, vehicle, route, boid, hijacking) ==
    /\ sensor_states' = Put(ss, vehicle.id, route)
    /\ _controller_states' = ctrl \cup {_2id(vehicle.id)}
    /\ _vehicles' = Put(vehs, _2id(vehicle.id), vehicle)
    /\ _2id_to_id' = Put(Put(idmap, _2id(vehicle.id), vehicle.id), _2id(agent_id), agent_id)
    /\ _controlled_by' = Insert0(tbl, EnfranchisedEntity(_2id(vehicle.id), _2id(agent_id),
                                                        boid, hijacking, vehicle.chassis.pose))

\* build_agent_vehicle: a new vehicle (Ackermann chassis for a dynamic action
\* space, box otherwise) enfranchised with hijacking=False.
build_agent_vehicle(agent_id, vehicle_id, route, pose, initial_speed, dynamic, boid) ==
    /\ pc = "idle"
    /\ UNCHANGED amvars
    /\ Len(_controlled_by) < MaxRecords
    /\ LET vehicle == Vehicle(IF vehicle_id = None THEN agent_id ELSE vehicle_id,
                              [kind |-> IF dynamic THEN Ackermann ELSE Box,
                               pose |-> pose, speed |-> initial_speed])
       IN  /\ _enfranchise_agent(_controlled_by, _vehicles, _2id_to_id, _controller_states,
                                 sensor_states, agent_id, vehicle, route, boid, FALSE)
           /\ last' = Outcome("build_agent_vehicle", vehicle.id, Ok, None, NoKinematics)

\* A build_social_vehicle without the role assertion.
build_social_vehicle_Unchecked(vehicle_id, role, pose, speed, owner_id) ==
    /\ pc = "idle"
    /\ UNCHANGED amvars
    /\ Len(_controlled_by) < MaxRecords
    /\ LET vehicle == Vehicle(vehicle_id, BoxChassis(pose, speed))
           owner == IF owner_id = None THEN Empty ELSE _2id(owner_id)
       IN  /\ _vehicles' = Put(_vehicles, _2id(vehicle_id), vehicle)
           /\ _2id_to_id' = Put(_2id_to_id, _2id(vehicle_id), vehicle_id)
           /\ _controlled_by' = Insert0(_controlled_by,
                                        SocialEntity(_2id(vehicle_id), owner, role, pose))
           /\ last' = Outcome("build_social_vehicle", vehicle_id, Ok, None, NoKinematics)
    /\ UNCHANGED <<_controller_states, sensor_states>>

\* build_social_vehicle: the vehicle and its id mapping are stored before the
\* role assertion; the row is inserted only when the assertion passes.
build_social_vehicle(vehicle_id, role, pose, speed, owner_id) ==
    /\ pc = "idle"
    /\ UNCHANGED amvars
    /\ Len(_controlled_by) < MaxRecords
    /\ LET vehicle == Vehicle(vehicle_id, BoxChassis(pose, speed))
           owner == IF owner_id = None THEN Empty ELSE _2id(owner_id)
       IN  /\ _vehicles' = Put(_vehicles, _2id(vehicle_id), vehicle)
           /\ _2id_to_id' = Put(_2id_to_id, _2id(vehicle_id), vehicle_id)
           /\ IF role \in {EgoAgent, SocialAgent}
              THEN /\ UNCHANGED _controlled_by
                   /\ last' = Outcome("build_social_vehicle", vehicle_id, "AssertionError", None, NoKinematics)
              ELSE /\ _controlled_by' = Insert0(_controlled_by,
                                          SocialEntity(_2id(vehicle_id), owner, role, pose))
                   /\ last' = Outcome("build_social_vehicle", vehicle_id, Ok, None, NoKinematics)
    /\ UNCHANGED <<_controller_states, sensor_states>>

\* start_agent_observation: fails on an unknown vehicle before any write; the
\* id mapping, sensor state and controller state are written before the row.
start_agent_observation(vehicle_id, agent_id, route, boid) ==
    /\ pc = "idle"
    /\ UNCHANGED amvars
    /\ LET v == _2id(vehicle_id)
           a == _2id(agent_id)
           idx == VIndex(_controlled_by, v)
       IN  IF v \notin DOMAIN _vehicles
           THEN /\ last' = Outcome("start_agent_observation", vehicle_id, "KeyError", None, NoKinematics)
                /\ UNCHANGED <<_controlled_by, _vehicles, _2id_to_id, _controller_states,
                               sensor_states>>
           ELSE /\ _2id_to_id' = Put(_2id_to_id, a, agent_id)
                /\ sensor_states' = Put(sensor_states, _vehicles[v].id, route)
                /\ _controller_states' = _controller_states \cup {v}
                /\ UNCHANGED _vehicles
                /\ IF idx = {}
                   THEN /\ UNCHANGED _controlled_by
                        /\ last' = Outcome("start_agent_observation", vehicle_id, "IndexError", None, NoKinematics)
                   ELSE /\ _controlled_by' = AssignMasked(_controlled_by, idx,
                                               ShadowedEntity(First(_controlled_by, idx), a, boid))
                        /\ last' = Returned("start_agent_observation", vehicle_id, agent_id, boid, NoKinematics)

\* switch_control_to_agent(recreate=False): the chassis is swapped before the
\* row is read; every row of the vehicle gets the first row's updated tuple.
switch_control_in_place(vehicle_id, agent_id, boid, hijacking, dynamic) ==
    /\ pc = "idle"
    /\ UNCHANGED amvars
    /\ LET v == _2id(vehicle_id)
           a == _2id(agent_id)
           idx == VIndex(_controlled_by, v)
       IN  IF v \notin DOMAIN _vehicles
           THEN /\ last' = Outcome("switch_control_to_agent", vehicle_id, "KeyError", None, NoKinematics)
                /\ UNCHANGED <<_controlled_by, _vehicles, _2id_to_id, _controller_states,
                               sensor_states>>
           ELSE LET vehicle == _vehicles[v]
                    chassis == IF dynamic
                               THEN AckermannChassis(vehicle.chassis.pose)
                               ELSE BoxChassis(vehicle.chassis.pose, vehicle.chassis.speed)
                IN  /\ _vehicles' = [_vehicles EXCEPT ![v] = swap_chassis(vehicle, chassis)]
                    /\ UNCHANGED <<_2id_to_id, _controller_states, sensor_states>>
                    /\ IF idx = {}
                       THEN /\ UNCHANGED _controlled_by
                            /\ last' = Outcome("switch_control_to_agent", vehicle_id, "IndexError", None, NoKinematics)
                       ELSE /\ _controlled_by' = AssignMasked(_controlled_by, idx,
                                      SwitchedEntity(First(_controlled_by, idx), a, boid, hijacking))
                            /\ last' = Returned("switch_control_to_agent", vehicle_id, agent_id, boid,
                                             Kinematics(vehicle, dynamic, hijacking))

\* The lookups _switch_control_to_agent_recreate makes in the registry before
\* it changes anything; each raises when its key is missing. (The agent's
\* interface is looked up in the agent manager, which holds one for every
\* agent it hands to the registry.)
RecreateError(vehicle_id, agent_id) ==
    IF _2id(agent_id) \notin DOMAIN _2id_to_id THEN "KeyError"
    ELSE IF _2id(vehicle_id) \notin DOMAIN _vehicles THEN "KeyError"
    ELSE IF _2id(vehicle_id) \notin _controller_states THEN "KeyError"
    ELSE IF vehicle_id \notin DOMAIN sensor_states THEN "AttributeError"
    ELSE Ok

\* vehicle.teardown(...) as seen by the sensor manager: the vehicle's sensor
\* state is cleared.
vehicle_teardown(ss, vehicle_id) == Pop(ss, vehicle_id)

\* What _switch_control_to_agent_recreate calls, in order, on a traffic sim
\* that manages the vehicle.
RecreateTrafficCalls == <<"reserve_traffic_location_for_vehicle", "stop_managing">>

\* switch_control_to_agent(recreate=True): a new vehicle under the same id
\* inherits the old chassis' physical values, the old vehicle is torn down and
\* the agent is enfranchised with the old sensor and controller state.
switch_control_recreate(vehicle_id, agent_id, boid, hijacking, dynamic) ==
    /\ pc = "idle"
    /\ UNCHANGED amvars
    /\ LET v == _2id(vehicle_id)
           error == RecreateError(vehicle_id, agent_id)
       IN  /\ Len(RemoveRows(_controlled_by, {v})) < MaxRecords
           /\ IF error # Ok
               THEN /\ last' = Outcome("switch_control_to_agent_recreate", vehicle_id, error, None, NoKinematics)
                    /\ UNCHANGED <<_controlled_by, _vehicles, _2id_to_id, _controller_states,
                                   sensor_states>>
               ELSE LET vehicle == _vehicles[v]
                        route == sensor_states[vehicle.id]
                        built == Vehicle(vehicle.id, [kind |-> IF dynamic THEN Ackermann ELSE Box,
                                                      pose |-> MissionStart, speed |-> 0])
                        new_vehicle == [built EXCEPT !.chassis =
                                           inherit_physical_values(built.chassis, vehicle.chassis)]
                    IN  /\ _enfranchise_agent(RemoveRows(_controlled_by, {v}),
                                              Pop(_vehicles, v),
                                              Pop(_2id_to_id, v),
                                              _controller_states \ {v},
                                              vehicle_teardown(sensor_states, vehicle.id),
                                              _2id_to_id[_2id(agent_id)],
                                              new_vehicle, route, boid, hijacking)
                        /\ last' = [Returned("switch_control_to_agent_recreate", vehicle_id,
                                          _2id_to_id[_2id(agent_id)], boid,
                                          Kinematics(vehicle, dynamic, hijacking))
                                        EXCEPT !.traffic = RecreateTrafficCalls]

\* The loop of stop_shadowing: for every row copied out of the mask, the
\* row's tuple with the shadower cleared is broadcast over the whole mask.
RECURSIVE StopShadowingLoop(_, _, _)
StopShadowingLoop(tbl, entities, idx) ==
    IF entities = <<>> THEN tbl
    ELSE StopShadowingLoop(AssignMasked(tbl, idx, UnshadowedEntity(Head(entities))),
                           Tail(entities), idx)

\* The mask of stop_shadowing: the shadower's rows, narrowed to one vehicle
\* when a vehicle id is given.
StopShadowingMask(tbl, shadower_id, vehicle_id) ==
    {i \in 1..Len(tbl) :
        /\ tbl[i].shadower_id = _2id(shadower_id)
        /\ vehicle_id # None => tbl[i].vehicle_id = _2id(vehicle_id)}

\* stop_shadowing(shadower_id, vehicle_id=None)
stop_shadowing(shadower_id, vehicle_id) ==
    /\ pc = "idle"
    /\ UNCHANGED amvars
    /\ LET idx == StopShadowingMask(_controlled_by, shadower_id, vehicle_id)
       IN  /\ _controlled_by' = StopShadowingLoop(_controlled_by,
                                                  Selected(_controlled_by, idx, 1), idx)
           /\ last' = Outcome("stop_shadowing", vehicle_id, Ok, None, NoKinematics)
           /\ UNCHANGED <<_vehicles, _2id_to_id, _controller_states, sensor_states>>

\* What stop_agent_observation raises: unknown vehicle, or vehicle without row.
StopObservationError(vehicle_id) ==
    IF _2id(vehicle_id) \notin DOMAIN _vehicles THEN "KeyError"
    ELSE IF VIndex(_controlled_by, _2id(vehicle_id)) = {} THEN "IndexError"
    ELSE Ok

\* The table after stop_agent_observation: the first row of the vehicle, with
\* the shadower cleared, over every row of the vehicle.
StopObservationTable(tbl, v) ==
    AssignMasked(tbl, VIndex(tbl, v), UnshadowedEntity(First(tbl, VIndex(tbl, v))))

\* stop_agent_observation(vehicle_id)
stop_agent_observation(vehicle_id) ==
    /\ pc = "idle"
    /\ UNCHANGED amvars
    /\ LET error == StopObservationError(vehicle_id)
       IN  /\ _controlled_by' = IF error = Ok
                                THEN StopObservationTable(_controlled_by, _2id(vehicle_id))
                                ELSE _controlled_by
           /\ last' = Outcome("stop_agent_observation", vehicle_id, error, None, NoKinematics)
           /\ UNCHANGED <<_vehicles, _2id_to_id, _controller_states, sensor_states>>

\* What relinquish_agent_control raises before it writes: no sensor state to
\* take the plan from, or the errors of stop_agent_observation.
RelinquishError(vehicle_id) ==
    IF vehicle_id \notin DOMAIN sensor_states THEN "AttributeError"
    ELSE StopObservationError(vehicle_id)

\* The round trip a relinquish completes: the kinematic state the vehicle had
\* before the hijack, when the previous call was a successful hijack of it.
RoundTrip(vehicle_id) ==
    IF /\ last.op \in {"switch_control_to_agent", "switch_control_to_agent_recreate"}
       /\ last.error = Ok
       /\ last.before.hijacking
       /\ last.vehicle_id = vehicle_id
    THEN last.before
    ELSE NoKinematics

\* relinquish_agent_control(vehicle_id): the route of the vehicle's plan is
\* read first, the shadower is cleared, the chassis becomes a box chassis with
\* the old chassis' pose and speed, and the row goes back to traffic.
relinquish_agent_control(vehicle_id) ==
    /\ pc = "idle"
    /\ UNCHANGED amvars
    /\ LET v == _2id(vehicle_id)
           error == RelinquishError(vehicle_id)
       IN  IF error # Ok
           THEN /\ last' = Outcome("relinquish_agent_control", vehicle_id, error, None, NoKinematics)
                /\ UNCHANGED <<_controlled_by, _vehicles, _2id_to_id, _controller_states,
                               sensor_states>>
           ELSE LET route == sensor_states[vehicle_id]
                    vehicle == _vehicles[v]
                    box_chassis == BoxChassis(vehicle.chassis.pose, vehicle.chassis.speed)
                    tbl == StopObservationTable(_controlled_by, v)
                    idx == VIndex(tbl, v)
                IN  /\ _vehicles' = [_vehicles EXCEPT ![v] = swap_chassis(vehicle, box_chassis)]
                    /\ _controlled_by' = AssignMasked(tbl, idx, RelinquishedEntity(First(tbl, idx)))
                    /\ last' = Outcome("relinquish_agent_control", vehicle_id, Ok, route, RoundTrip(vehicle_id))
                    /\ UNCHANGED <<_2id_to_id, _controller_states, sensor_states>>

\* The sensor states left after the vehicles that exist among `ids` are torn down.
RECURSIVE TeardownSensorStates(_, _)
TeardownSensorStates(ss, ids) ==
    IF ids = {} THEN ss
    ELSE LET id_ == CHOOSE x \in ids : TRUE
         IN  TeardownSensorStates(
                 IF _2id(id_) \in DOMAIN _vehicles THEN vehicle_teardown(ss, id_) ELSE ss,
                 ids \ {id_})

\* The body of teardown_vehicles_by_vehicle_ids: vehicle, controller state and
\* id mapping popped per id, then every row of those ids removed.
TeardownVehicles(ids) ==
    LET fids == {_2id(id_) : id_ \in ids}
    IN  /\ _vehicles' = PopAll(_vehicles, fids)
        /\ _controller_states' = _controller_states \ fids
        /\ _2id_to_id' = PopAll(_2id_to_id, fids)
        /\ sensor_states' = TeardownSensorStates(sensor_states, ids)
        /\ _controlled_by' = RemoveRows(_controlled_by, fids)

\* teardown_vehicles_by_vehicle_ids(vehicle_ids, renderer)
teardown_vehicles_by_vehicle_ids(ids) ==
    /\ pc = "idle"
    /\ UNCHANGED amvars
    /\ TeardownVehicles(ids)
    /\ last' = Outcome("teardown_vehicles_by_vehicle_ids", None, Ok, None, NoKinematics)

\* A lookup that stops at the first vehicle of the owners.
OwnerVehicleRows_FirstOnly(owner_ids, include_shadowing) ==
    LET rows == UNION {owner_rows(_controlled_by, o, include_shadowing) : o \in owner_ids}
    IN  IF rows = {} THEN {} ELSE {Min(rows)}

\* vehicles_by_owner_id over the owner ids: the rows' vehicle ids are mapped
\* back through _2id_to_id and looked up in _vehicles.
OwnerVehicleRows(owner_ids, include_shadowing) ==
    UNION {owner_rows(_controlled_by, o, include_shadowing) : o \in owner_ids}

\* teardown_vehicles_by_owner_ids(owner_ids, renderer, include_shadowing=True)
teardown_vehicles_by_owner_ids(owner_ids, include_shadowing) ==
    /\ pc = "idle"
    /\ UNCHANGED amvars
    /\ LET rows == OwnerVehicleRows(owner_ids, include_shadowing)
           fids == {_controlled_by[i].vehicle_id : i \in rows}
       IN  IF \E f \in fids : f \notin DOMAIN _2id_to_id \/ f \notin DOMAIN _vehicles
           THEN /\ last' = Outcome("teardown_vehicles_by_owner_ids", None, "KeyError", None, NoKinematics)
                /\ UNCHANGED <<_controlled_by, _vehicles, _2id_to_id, _controller_states,
                               sensor_states>>
           ELSE LET ids == {_vehicles[_2id(_2id_to_id[f])].id : f \in fids}
                IN  /\ TeardownVehicles(ids)
                    /\ last' = [Outcome("teardown_vehicles_by_owner_ids", None, Ok, None,
                                        NoKinematics) EXCEPT !.removed = ids]

\* teardown(renderer): the index is reset.
teardown ==
    /\ pc = "idle"
    /\ UNCHANGED amvars
    /\ _controlled_by' = <<>>
    /\ _vehicles' = EmptyDict
    /\ _controller_states' = {}
    /\ _2id_to_id' = EmptyDict
    /\ sensor_states' = TeardownSensorStates(sensor_states, VehicleIds)
    /\ last' = Outcome("teardown", None, Ok, None, NoKinematics)

\* The table after sync has visited the vehicles `fids`: the first row of
\* each, with the vehicle's position, is written over its rows.
RECURSIVE SyncedTable(_, _)
SyncedTable(tbl, fids) ==
    IF fids = {} THEN tbl
    ELSE LET f == CHOOSE x \in fids : TRUE
             idx == VIndex(tbl, f)
             entity == [First(tbl, idx) EXCEPT !.position = _vehicles[f].chassis.pose]
         IN  SyncedTable(AssignMasked(tbl, idx, entity), fids \ {f})

\* sync(): every vehicle's rows get the vehicle's position; a vehicle without
\* a row ends the loop with an IndexError, after the vehicles that the dict
\* holds before it were synced.
sync ==
    /\ pc = "idle"
    /\ UNCHANGED amvars
    /\ LET with_row == {f \in DOMAIN _vehicles : VIndex(_controlled_by, f) # {}}
       IN  IF with_row = DOMAIN _vehicles
           THEN /\ _controlled_by' = SyncedTable(_controlled_by, with_row)
                /\ last' = Outcome("sync", None, Ok, None, NoKinematics)
           ELSE /\ \E visited \in SUBSET with_row :
                      _controlled_by' = SyncedTable(_controlled_by, visited)
                /\ last' = Outcome("sync", None, "IndexError", None, NoKinematics)
    /\ UNCHANGED <<_vehicles, _2id_to_id, _controller_states, sensor_states>>

\* ------------------------------------------------------- controller pool
\* Most handles the pool hands out in one run.
MaxHandles == 2

\* A controller handle; a wedged controller never answers an act request.
Handle(wedged) == [started |-> FALSE, terminated |-> 0, wedged |-> wedged]

\* HeterogenousAgentBuffer.acquire_agent: a fresh handle, the last of the pool.
acquire_agent(buffer, wedged) == Append(buffer, Handle(wedged))

\* RemoteAgent.start
start(buffer, h) == [buffer EXCEPT ![h].started = TRUE]

\* RemoteAgent.terminate, for every handle of hs.
terminate(buffer, hs) ==
    [h \in 1..Len(buffer) |->
        IF h \in hs THEN [buffer[h] EXCEPT !.terminated = @ + 1] ELSE buffer[h]]

\* ---------------------------------------------- insertion-ordered dict
Keys(od) == {od[i].k : i \in 1..Len(od)}

Get(od, k) == od[CHOOSE i \in 1..Len(od) : od[i].k = k].v

\* od[k] = v: a key the dict has keeps its place, a new key goes last.
SetItem(od, k, v) ==
    IF k \in Keys(od)
    THEN [i \in 1..Len(od) |-> IF od[i].k = k THEN [k |-> k, v |-> v] ELSE od[i]]
    ELSE Append(od, [k |-> k, v |-> v])

DelItems(od, ks) == SelectSeq(od, LAMBDA e : e.k \notin ks)

\* ------------------------------------------------------------ providers
\* sim.providers, in list order, and the action spaces each one supports.
Providers == <<"P1", "P2", "P3">>

ProviderActions(provider) ==
    CASE provider = "P1" -> {"Continuous"}
      [] provider = "P2" -> {"Continuous", "Lane"}
      [] provider = "P3" -> {"Lane"}

\* The VehicleState _add_agent shows the providers.
VehicleState(vehicle, role) == [actor_id |-> vehicle.id, role |-> role]

ProviderCall(call, provider, state) == [call |-> call, provider |-> provider, state |-> state]

\* The for-else loop of _add_agent from provider i on: an add_actor after
\* every provider that supports the action space and accepts, where a loop
\* that does not break goes on to the next provider.
RECURSIVE ProviderLoop_NoBreak(_, _, _, _, _)
ProviderLoop_NoBreak(i, log, action, state, accepting) ==
    IF i > Len(Providers) THEN [error |-> Ok, log |-> log]
    ELSE IF action \notin ProviderActions(Providers[i])
    THEN ProviderLoop_NoBreak(i + 1, log, action, state, accepting)
    ELSE LET asked == Append(log, ProviderCall("can_accept_actor", Providers[i], state))
         IN  IF Providers[i] \in accepting
             THEN ProviderLoop_NoBreak(i + 1,
                      Append(asked, ProviderCall("add_actor", Providers[i], state)),
                      action, state, accepting)
             ELSE ProviderLoop_NoBreak(i + 1, asked, action, state, accepting)

\* The for-else loop of _add_agent from provider i on: providers that do not
\* support the action space are skipped, the first one of the others that
\* accepts the state gets it and ends the loop, and a loop that runs out of
\* providers fails. accepting: the providers whose can_accept_actor is true.
RECURSIVE ProviderLoop(_, _, _, _, _)
ProviderLoop(i, log, action, state, accepting) ==
    IF i > Len(Providers) THEN [error |-> "AssertionError", log |-> log]
    ELSE IF action \notin ProviderActions(Providers[i])
    THEN ProviderLoop(i + 1, log, action, state, accepting)
    ELSE LET asked == Append(log, ProviderCall("can_accept_actor", Providers[i], state))
         IN  IF Providers[i] \in accepting
             THEN [error |-> Ok,
                   log |-> Append(asked, ProviderCall("add_actor", Providers[i], state))]
             ELSE ProviderLoop(i + 1, asked, action, state, accepting)

\* -------------------------------------------------------- agent manager
\* A SocialAgent data model.
SocialAgentModel(actor_name, is_boid, is_boid_keep_alive) ==
    [actor_name |-> actor_name, is_boid |-> is_boid,
     is_boid_keep_alive |-> is_boid_keep_alive]

agent_ids == _ego_agent_ids \cup _social_agent_ids

\* The vehicle build_agent_vehicle builds for _add_agent: named after the
\* actor, on a box chassis at the start of the agent's mission.
AgentVehicle(agent_id, agent_model) ==
    Vehicle(IF agent_model.actor_name = None THEN agent_id ELSE agent_model.actor_name,
            [kind |-> Box, pose |-> 1, speed |-> 1])

\* What _add_agent does after it has built the vehicle: the role it shows
\* the providers, the provider loop and, unless the loop failed, the
\* interface and data model it stores.
_add_agent(agent_id, action, agent_model, vehicle, trainable, accepting) ==
    LET role == IF trainable THEN EgoAgent ELSE SocialAgent
        loop == ProviderLoop(1, <<>>, action, VehicleState(vehicle, role), accepting)
    IN  [error |-> loop.error,
         provider_actors |-> loop.log,
         _agent_interfaces |->
             IF loop.error = Ok THEN Put(_agent_interfaces, agent_id, action)
             ELSE _agent_interfaces,
         _social_agent_data_models |->
             IF loop.error = Ok THEN Put(_social_agent_data_models, agent_id, agent_model)
             ELSE _social_agent_data_models]

\* The variables of the tick: futures, reservations, tick and fetch result.
tickvars == <<_remote_social_agents_action, _reserved_social_agent_actions, tick, actions>>

add_ego_agent(agent_id, action, for_trap) ==
    /\ pc = "idle"
    /\ _pending_agent_ids' = IF for_trap THEN _pending_agent_ids \cup {agent_id}
                             ELSE _pending_agent_ids
    /\ _ego_agent_ids' = _ego_agent_ids \cup {agent_id}
    /\ _agent_interfaces' = Put(_agent_interfaces, agent_id, action)
    /\ last' = Returned("add_ego_agent", None, agent_id, FALSE, NoKinematics)
    /\ UNCHANGED <<regvars, _social_agent_ids, _pending_social_agent_ids,
                   _social_agent_data_models, _remote_social_agents, _agent_buffer,
                   provider_actors, pc, tickvars>>

\* The scenario's social agents become pending social agents.
_setup_social_agents(social_agents) ==
    /\ pc = "idle"
    /\ _pending_social_agent_ids' = _pending_social_agent_ids \cup social_agents
    /\ last' = Outcome("_setup_social_agents", None, Ok, None, NoKinematics)
    /\ UNCHANGED <<regvars, _ego_agent_ids, _social_agent_ids, _pending_agent_ids,
                   _agent_interfaces, _social_agent_data_models, _remote_social_agents,
                   _agent_buffer, provider_actors, pc, tickvars>>

remove_pending_agent_ids(ids) ==
    /\ pc = "idle"
    /\ IF ~(ids \subseteq agent_ids)
       THEN /\ last' = Outcome("remove_pending_agent_ids", None, "AssertionError", None,
                               NoKinematics)
            /\ UNCHANGED _pending_agent_ids
       ELSE /\ _pending_agent_ids' = _pending_agent_ids \ ids
            /\ last' = Outcome("remove_pending_agent_ids", None, Ok, None, NoKinematics)
    /\ UNCHANGED <<regvars, _ego_agent_ids, _social_agent_ids, _pending_social_agent_ids,
                   _agent_interfaces, _social_agent_data_models, _remote_social_agents,
                   _agent_buffer, provider_actors, pc, tickvars>>

start_social_agent(agent_id, action, agent_model, wedged) ==
    /\ pc = "idle"
    /\ Len(_agent_buffer) < MaxHandles
    /\ LET remote_agent == Len(_agent_buffer) + 1
       IN  /\ _agent_buffer' = start(acquire_agent(_agent_buffer, wedged), remote_agent)
           /\ _remote_social_agents' = SetItem(_remote_social_agents, agent_id, remote_agent)
    /\ _agent_interfaces' = Put(_agent_interfaces, agent_id, action)
    /\ _social_agent_ids' = _social_agent_ids \cup {agent_id}
    /\ _social_agent_data_models' = Put(_social_agent_data_models, agent_id, agent_model)
    /\ last' = Returned("start_social_agent", None, agent_id, agent_model.is_boid, NoKinematics)
    /\ UNCHANGED <<regvars, _ego_agent_ids, _pending_agent_ids, _pending_social_agent_ids,
                   provider_actors, pc, tickvars>>

\* An id add_and_emit_social_agent turns down when only the social and the
\* pending agents count.
IsReserved_IgnoresEgo(agent_id) ==
    agent_id \in _social_agent_ids \/ agent_id \in _pending_agent_ids

\* An id add_and_emit_social_agent turns down: an agent's, or a pending one.
IsReserved(agent_id) == agent_id \in agent_ids \/ agent_id \in _pending_agent_ids

\* The handle is acquired and the vehicle built before the provider loop can
\* fail; _add_agent is called with trainable=False and boid=False.
add_and_emit_social_agent(agent_id, action, agent_model, wedged, accepting) ==
    /\ pc = "idle"
    /\ IF IsReserved(agent_id)
       THEN /\ last' = [Returned("add_and_emit_social_agent", None, agent_id, FALSE,
                                     NoKinematics) EXCEPT !.ret = "False"]
            /\ UNCHANGED <<regvars, _social_agent_ids, _pending_social_agent_ids,
                           _agent_interfaces, _social_agent_data_models,
                           _remote_social_agents, _agent_buffer, provider_actors>>
       ELSE /\ Len(_agent_buffer) < MaxHandles
            /\ Len(_controlled_by) < MaxRecords
            /\ LET remote_agent == Len(_agent_buffer) + 1
                   vehicle == AgentVehicle(agent_id, agent_model)
                   added == _add_agent(agent_id, action, agent_model, vehicle, FALSE,
                                       accepting)
               IN  /\ _enfranchise_agent(_controlled_by, _vehicles, _2id_to_id,
                                         _controller_states, sensor_states, agent_id,
                                         vehicle, "r1", FALSE, FALSE)
                   /\ provider_actors' = added.provider_actors
                   /\ _agent_interfaces' = added._agent_interfaces
                   /\ _social_agent_data_models' = added._social_agent_data_models
                   /\ IF added.error # Ok
                      THEN /\ _agent_buffer' = acquire_agent(_agent_buffer, wedged)
                           /\ last' = [Returned("add_and_emit_social_agent", vehicle.id,
                                                agent_id, FALSE, NoKinematics)
                                       EXCEPT !.error = added.error]
                           /\ UNCHANGED <<_social_agent_ids, _pending_social_agent_ids,
                                          _remote_social_agents>>
                      ELSE /\ _pending_social_agent_ids' = _pending_social_agent_ids \ {agent_id}
                           /\ _agent_buffer' = start(acquire_agent(_agent_buffer, wedged),
                                                     remote_agent)
                           /\ _remote_social_agents' =
                                  SetItem(_remote_social_agents, agent_id, remote_agent)
                           /\ _social_agent_ids' = _social_agent_ids \cup {agent_id}
                           /\ last' = [Returned("add_and_emit_social_agent", vehicle.id,
                                                agent_id, FALSE, NoKinematics)
                                       EXCEPT !.ret = "True"]
    /\ UNCHANGED <<_ego_agent_ids, _pending_agent_ids, pc, tickvars>>

\* The filter_ids argument: None, or a set of agent ids.
NoFilter == [none |-> TRUE, ids |-> {}]

Filter(ids) == [none |-> FALSE, ids |-> ids]

\* ids_ of _teardown_agents_by_ids; a filter of None lets every id through.
TeardownIds(ids, filter_ids) == IF filter_ids.none THEN ids ELSE ids \cap filter_ids.ids

\* A teardown of ego agents that leaves them pending.
teardown_ego_agents_KeepsPending(filter_ids) ==
    /\ pc = "idle"
    /\ LET ids_ == TeardownIds(_ego_agent_ids, filter_ids)
       IN  /\ _agent_interfaces' = PopAll(_agent_interfaces, ids_)
           /\ _ego_agent_ids' = _ego_agent_ids \ ids_
           /\ last' = [Outcome("teardown_ego_agents", None, Ok, None, NoKinematics)
                       EXCEPT !.removed = ids_]
    /\ UNCHANGED <<regvars, _social_agent_ids, _pending_social_agent_ids, _pending_agent_ids,
                   _social_agent_data_models, _remote_social_agents, _agent_buffer,
                   provider_actors, pc, tickvars>>

teardown_ego_agents(filter_ids) ==
    /\ pc = "idle"
    /\ LET ids_ == TeardownIds(_ego_agent_ids, filter_ids)
       IN  /\ _agent_interfaces' = PopAll(_agent_interfaces, ids_)
           /\ _pending_agent_ids' = _pending_agent_ids \ ids_
           /\ _ego_agent_ids' = _ego_agent_ids \ ids_
           /\ last' = [Outcome("teardown_ego_agents", None, Ok, None, NoKinematics)
                       EXCEPT !.removed = ids_]
    /\ UNCHANGED <<regvars, _social_agent_ids, _pending_social_agent_ids,
                   _social_agent_data_models, _remote_social_agents, _agent_buffer,
                   provider_actors, pc, tickvars>>

\* The handles teardown_social_agents terminates for ids_.
TerminatedHandles(ids_) == {Get(_remote_social_agents, id_) : id_ \in ids_}

teardown_social_agents(filter_ids) ==
    /\ pc = "idle"
    /\ LET ids_ == TeardownIds(_social_agent_ids, filter_ids)
       IN  /\ _agent_interfaces' = PopAll(_agent_interfaces, ids_)
           /\ _pending_agent_ids' = _pending_agent_ids \ ids_
           /\ _agent_buffer' = terminate(_agent_buffer, TerminatedHandles(ids_))
           /\ _remote_social_agents' = DelItems(_remote_social_agents, ids_)
           /\ _social_agent_data_models' = PopAll(_social_agent_data_models, ids_)
           /\ _social_agent_ids' = _social_agent_ids \ ids_
           /\ last' = [Outcome("teardown_social_agents", None, Ok, None, NoKinematics)
                       EXCEPT !.removed = ids_]
    /\ UNCHANGED <<regvars, _ego_agent_ids, _pending_social_agent_ids, provider_actors,
                   pc, tickvars>>

\* AgentManager.teardown: both teardowns without a filter, then no agent is
\* pending.
AgentManager_teardown ==
    /\ pc = "idle"
    /\ _agent_interfaces' = PopAll(_agent_interfaces, agent_ids)
    /\ _ego_agent_ids' = {}
    /\ _agent_buffer' = terminate(_agent_buffer, TerminatedHandles(_social_agent_ids))
    /\ _remote_social_agents' = DelItems(_remote_social_agents, _social_agent_ids)
    /\ _social_agent_data_models' = PopAll(_social_agent_data_models, _social_agent_ids)
    /\ _social_agent_ids' = {}
    /\ _pending_agent_ids' = {}
    /\ last' = [Outcome("AgentManager.teardown", None, Ok, None, NoKinematics)
                EXCEPT !.removed = agent_ids]
    /\ UNCHANGED <<regvars, _pending_social_agent_ids, provider_actors, pc, tickvars>>

\* ------------------------------------------------------------- the tick
\* Most ticks of one run.
MaxTick == 2

\* An action: what it is ("act": a controller's answer, "reserved": a forced
\* action, "ego": given by the caller, "None": no action), the tick of the
\* observation it answers, the handle that computed it, and for a boid the
\* vehicles it has an entry for.
Action(kind, t, handle, vehicles) ==
    [kind |-> kind, tick |-> t, handle |-> handle, vehicles |-> vehicles]

NoAction == Action("None", 0, 0, {})

EgoAction == Action("ego", 0, 0, {})

ReservedAction == Action("reserved", 0, 0, VehicleIds)

\* A future: whether it has a result yet, the handle asked, and the result.
Future(done, handle, result) == [done |-> done, handle |-> handle, result |-> result]

\* RemoteAgent.act(obs): a pending future for the answer to the observation.
act(handle, obs) == Future(FALSE, handle, Action("act", obs, handle, VehicleIds))

\* futures.Future() with set_result(action), for every reservation.
ReservedFutures(reserved) == [a \in DOMAIN reserved |-> Future(TRUE, 0, reserved[a])]

\* The last loop of _send_observations_to_social_agents from entry i on, where
\* an agent with a reservation is asked as well.
RECURSIVE SendLoop_AsksReserved(_, _, _, _)
SendLoop_AsksReserved(i, remote, futures_, observations) ==
    IF i > Len(remote) THEN Returns(futures_)
    ELSE IF remote[i].k \notin DOMAIN observations THEN Raises("KeyError", futures_)
    ELSE SendLoop_AsksReserved(i + 1, remote,
                  Put(futures_, remote[i].k, act(remote[i].v, observations[remote[i].k])),
                  observations)

\* The last loop of _send_observations_to_social_agents from entry i on: an
\* agent that has a future already is passed over, every other one is asked
\* through its handle with its observation; an agent without an observation
\* ends the loop with a KeyError.
RECURSIVE SendLoop(_, _, _, _)
SendLoop(i, remote, futures_, observations) ==
    IF i > Len(remote) THEN Returns(futures_)
    ELSE IF remote[i].k \in DOMAIN futures_
    THEN SendLoop(i + 1, remote, futures_, observations)
    ELSE IF remote[i].k \notin DOMAIN observations THEN Raises("KeyError", futures_)
    ELSE SendLoop(i + 1, remote,
                  Put(futures_, remote[i].k, act(remote[i].v, observations[remote[i].k])),
                  observations)

\* The observations of a tick: for each agent observed, the tick observed.
Observations(ids, t) == [a \in ids |-> t]

reserve_social_agent_action(agent_id, action) ==
    /\ pc = "idle"
    /\ _reserved_social_agent_actions' = Put(_reserved_social_agent_actions, agent_id, action)
    /\ last' = Returned("reserve_social_agent_action", None, agent_id, FALSE, NoKinematics)
    /\ UNCHANGED <<regvars, _ego_agent_ids, _social_agent_ids, _pending_agent_ids,
                   _pending_social_agent_ids, _agent_interfaces, _social_agent_data_models,
                   _remote_social_agents, _agent_buffer, provider_actors, pc,
                   _remote_social_agents_action, tick, actions>>

_send_observations_to_social_agents(observations) ==
    /\ pc = "idle"
    /\ LET sent == SendLoop(1, _remote_social_agents,
                            ReservedFutures(_reserved_social_agent_actions), observations)
       IN  /\ _remote_social_agents_action' = sent.value
           /\ last' = Outcome("_send_observations_to_social_agents", None, sent.error, None,
                              NoKinematics)
    /\ _reserved_social_agent_actions' = EmptyDict
    /\ UNCHANGED <<regvars, _ego_agent_ids, _social_agent_ids, _pending_agent_ids,
                   _pending_social_agent_ids, _agent_interfaces, _social_agent_data_models,
                   _remote_social_agents, _agent_buffer, provider_actors, pc, tick, actions>>

\* A controller answers: the future of the agent gets its result. A wedged
\* controller never does.
set_result(agent_id) ==
    /\ agent_id \in DOMAIN _remote_social_agents_action
    /\ ~_remote_social_agents_action[agent_id].done
    /\ ~_agent_buffer[_remote_social_agents_action[agent_id].handle].wedged
    /\ _remote_social_agents_action' =
           [_remote_social_agents_action EXCEPT ![agent_id].done = TRUE]
    /\ last' = Returned("set_result", None, agent_id, FALSE, NoKinematics)
    /\ UNCHANGED <<regvars, _ego_agent_ids, _social_agent_ids, _pending_agent_ids,
                   _pending_social_agent_ids, _agent_interfaces, _social_agent_data_models,
                   _remote_social_agents, _agent_buffer, provider_actors, pc,
                   _reserved_social_agent_actions, tick, actions>>

\* A fetch that calls result() on every future of the tick.
Awaited_EveryFuture == DOMAIN _remote_social_agents_action

\* The agents whose future fetch_agent_actions calls result() on.
Awaited == Keys(_remote_social_agents) \cap DOMAIN _remote_social_agents_action

\* The futures fetch_agent_actions is still waiting for.
Outstanding == {a \in Awaited : ~_remote_social_agents_action[a].done}

\* The dict fetch_agent_actions builds first: the result of its future for
\* every agent with a handle, None for one without a future.
social_agent_actions ==
    [a \in Keys(_remote_social_agents) |->
        IF a \in DOMAIN _remote_social_agents_action
        THEN _remote_social_agents_action[a].result ELSE NoAction]

is_boid_agent(agent_id) ==
    /\ agent_id \in DOMAIN _social_agent_data_models
    /\ _social_agent_data_models[agent_id].is_boid

\* The owners of the vehicles that agents control.
controlling_agent_ids(tbl, idmap) ==
    LET vids == agent_vehicle_ids(tbl, idmap)
        owners == {owner_id_from_vehicle_id(tbl, idmap, v) : v \in vids.value}
        failed == {o \in owners : o.error # Ok}
    IN  IF vids.error # Ok THEN Raises(vids.error, {})
        ELSE IF failed # {} THEN Raises((CHOOSE o \in failed : TRUE).error, {})
        ELSE Returns({o.value : o \in owners})

\* A filter that also keeps the actions for the vehicles an agent shadows.
_filter_social_agent_actions_WithShadowed(tbl, idmap, social) ==
    LET seen(a) == vehicle_ids_by_owner_id(tbl, idmap, a, TRUE)
        kept == {a \in DOMAIN social : seen(a).value # {}}
        boids == {a \in kept : is_boid_agent(a)}
    IN  IF \E a \in boids : social[a] = NoAction THEN Raises("AttributeError", EmptyDict)
        ELSE IF \E a \in kept : seen(a).error # Ok THEN Raises("KeyError", EmptyDict)
        ELSE Returns([a \in kept |->
                 IF a \in boids
                 THEN [social[a] EXCEPT !.vehicles = @ \cap seen(a).value]
                 ELSE social[a]])

\* _filter_social_agent_actions_for_controlled_vehicles: the actions of the
\* agents that own a vehicle, a boid's cut down to the vehicles it owns.
_filter_social_agent_actions_for_controlled_vehicles(tbl, idmap, social) ==
    LET controlling == controlling_agent_ids(tbl, idmap)
        kept == {a \in DOMAIN social : a \in controlling.value}
        boids == {a \in kept : is_boid_agent(a)}
        owned(a) == vehicle_ids_by_owner_id(tbl, idmap, a, FALSE)
    IN  IF controlling.error # Ok THEN Raises(controlling.error, EmptyDict)
        ELSE IF \E a \in boids : social[a] = NoAction THEN Raises("AttributeError", EmptyDict)
        ELSE IF \E a \in boids : owned(a).error # Ok THEN Raises("KeyError", EmptyDict)
        ELSE Returns([a \in kept |->
                 IF a \in boids
                 THEN [social[a] EXCEPT !.vehicles = @ \cap owned(a).value]
                 ELSE social[a]])

\* {**ego_agent_actions, **social_agent_actions}
Merged(ego, social) ==
    [a \in DOMAIN ego \cup DOMAIN social |-> IF a \in DOMAIN social THEN social[a] ELSE ego[a]]

\* fetch_agent_actions is called: it waits in result() until every future it
\* reads has a result. Nothing else runs while it waits.
fetch_agent_actions_call(ego_agent_actions) ==
    /\ pc = "idle"
    /\ tick < MaxTick
    /\ pc' = "fetching"
    /\ actions' = ego_agent_actions
    /\ last' = Outcome("fetch_agent_actions", None, "waiting", None, NoKinematics)
    /\ UNCHANGED <<regvars, _ego_agent_ids, _social_agent_ids, _pending_agent_ids,
                   _pending_social_agent_ids, _agent_interfaces, _social_agent_data_models,
                   _remote_social_agents, _agent_buffer, provider_actors,
                   _remote_social_agents_action, _reserved_social_agent_actions, tick>>

\* A fetch_agent_actions that returns whatever futures have a result by now.
fetch_agent_actions_return_NoWait ==
    /\ pc = "fetching"
    /\ LET filtered == _filter_social_agent_actions_for_controlled_vehicles(
                           _controlled_by, _2id_to_id, social_agent_actions)
       IN  /\ actions' = IF filtered.error = Ok THEN Merged(actions, filtered.value)
                         ELSE EmptyDict
           /\ last' = Outcome("fetch_agent_actions", None, filtered.error, None, NoKinematics)
    /\ pc' = "idle"
    /\ tick' = tick + 1
    /\ UNCHANGED <<regvars, _ego_agent_ids, _social_agent_ids, _pending_agent_ids,
                   _pending_social_agent_ids, _agent_interfaces, _social_agent_data_models,
                   _remote_social_agents, _agent_buffer, provider_actors,
                   _remote_social_agents_action, _reserved_social_agent_actions>>

\* fetch_agent_actions returns (or raises what the registry raised): every
\* future it reads has its result; the actions are filtered and merged over
\* the ego actions. The tick's actions are taken, the next tick begins.
fetch_agent_actions_return ==
    /\ pc = "fetching"
    /\ Outstanding = {}
    /\ LET filtered == _filter_social_agent_actions_for_controlled_vehicles(
                           _controlled_by, _2id_to_id, social_agent_actions)
       IN  /\ actions' = IF filtered.error = Ok THEN Merged(actions, filtered.value)
                         ELSE EmptyDict
           /\ last' = Outcome("fetch_agent_actions", None, filtered.error, None, NoKinematics)
    /\ pc' = "idle"
    /\ tick' = tick + 1
    /\ UNCHANGED <<regvars, _ego_agent_ids, _social_agent_ids, _pending_agent_ids,
                   _pending_social_agent_ids, _agent_interfaces, _social_agent_data_models,
                   _remote_social_agents, _agent_buffer, provider_actors,
                   _remote_social_agents_action, _reserved_social_agent_actions>>

\* -------------------------------------------------------------- observe
\* A controller answers with no action: the future's result is None.
set_result_none(agent_id) ==
    /\ agent_id \in DOMAIN _remote_social_agents_action
    /\ ~_remote_social_agents_action[agent_id].done
    /\ ~_agent_buffer[_remote_social_agents_action[agent_id].handle].wedged
    /\ _remote_social_agents_action' =
           [_remote_social_agents_action EXCEPT ![agent_id] = Future(TRUE, @.handle, NoAction)]
    /\ last' = Returned("set_result_none", None, agent_id, FALSE, NoKinematics)
    /\ UNCHANGED <<regvars, _ego_agent_ids, _social_agent_ids, _pending_agent_ids,
                   _pending_social_agent_ids, _agent_interfaces, _social_agent_data_models,
                   _remote_social_agents, _agent_buffer, provider_actors, pc,
                   _reserved_social_agent_actions, tick, actions>>

is_boid_keep_alive_agent(agent_id) ==
    /\ agent_id \in DOMAIN _social_agent_data_models
    /\ _social_agent_data_models[agent_id].is_boid_keep_alive

\* vehicles_for_agent: the vehicles the agent owns or shadows.
vehicles_for_agent(agent_id) ==
    vehicle_ids_by_owner_id(_controlled_by, _2id_to_id, agent_id, TRUE)

\* agent_has_vehicle
agent_has_vehicle(agent_id) ==
    LET ids == vehicles_for_agent(agent_id)
    IN  IF ids.error # Ok THEN Raises(ids.error, FALSE) ELSE Returns(ids.value # {})

\* is_boid_done
is_boid_done(agent_id) ==
    IF is_boid_keep_alive_agent(agent_id) THEN Returns(FALSE)
    ELSE LET has == agent_has_vehicle(agent_id)
         IN  IF has.error # Ok THEN has ELSE Returns(~has.value)

\* shadower_ids(): the shadowers of all rows.
shadower_ids(tbl, idmap) ==
    LET fids == {tbl[i].shadower_id : i \in 1..Len(tbl)} \ {Empty}
    IN  IF fids \subseteq DOMAIN idmap THEN Returns({idmap[f] : f \in fids})
        ELSE Raises("KeyError", {})

active_agents == agent_ids \ _pending_agent_ids

\* A done of observe: one flag, or for a boid agent a flag per vehicle.
DoneFlag(flag) == [map |-> FALSE, flag |-> flag, vehicles |-> EmptyDict]

DoneMap(vehicles) == [map |-> TRUE, flag |-> FALSE, vehicles |-> vehicles]

\* (vehicles_for_agent(a_id) + [None])[0]: the vehicle of the agent's first row.
FirstVehicle(agent_id) ==
    LET rows == Selected(_controlled_by, owner_rows(_controlled_by, agent_id, TRUE), 1)
    IN  IF rows = <<>> THEN None ELSE _2id_to_id[rows[1].vehicle_id]

\* SensorManager.sensor_state_exists
sensor_state_exists(vehicle_id) == vehicle_id \in DOMAIN sensor_states

\* d1.update(d2)
Update(d1, d2) ==
    [k \in DOMAIN d1 \cup DOMAIN d2 |-> IF k \in DOMAIN d2 THEN d2[k] ELSE d1[k]]

\* The forced reset at the end of observe: every done becomes true, a boid
\* agent's for every vehicle it has an entry for; a boid agent's done that is
\* a flag cannot be iterated.
ForcedReset(dones) ==
    IF \E a \in DOMAIN dones : is_boid_agent(a) /\ ~dones[a].map
    THEN Raises("TypeError", EmptyDict)
    ELSE Returns(Update(
             [a \in DOMAIN dones |->
                 IF is_boid_agent(a)
                 THEN DoneMap([v \in DOMAIN dones[a].vehicles |-> TRUE])
                 ELSE DoneFlag(TRUE)],
             [k \in {"__sim__"} |-> DoneFlag(TRUE)]))

\* The dones of observe(). done_agents and done_vehicles: the agents and
\* vehicles the sensors report as done.
observe_dones(should_reset, done_agents, done_vehicles) ==
    LET shadowing == shadower_ids(_controlled_by, _2id_to_id)
        failed == {a \in agent_ids : vehicles_for_agent(a).error # Ok}
        no_vehicle == {a \in agent_ids : ~agent_has_vehicle(a).value}
        dropped == [a \in no_vehicle |->
                       DoneFlag(a \notin _pending_agent_ids \cup shadowing.value)]
        standard == {a \in active_agents : ~is_boid_agent(a)}
        boids == {a \in active_agents : is_boid_agent(a)}
        observed == {a \in standard :
                        /\ FirstVehicle(a) # None
                        /\ sensor_state_exists(FirstVehicle(a))}
        new_dones == [a \in observed |-> DoneFlag(a \in done_agents)]
        boid_dones == [a \in boids |->
                          DoneMap([v \in vehicles_for_agent(a).value |-> v \in done_vehicles])]
        missing == {a \in boids :
                       \E v \in vehicles_for_agent(a).value : _2id(v) \notin DOMAIN _vehicles}
        dones == Update(Update(dropped, new_dones), boid_dones)
    IN  IF failed # {} \/ (no_vehicle # {} /\ shadowing.error # Ok)
        THEN Raises("KeyError", EmptyDict)
        ELSE IF missing # {} THEN Raises("KeyError", EmptyDict)
        ELSE IF should_reset THEN ForcedReset(dones)
        ELSE Returns(dones)

\* The standard agents observe() asks the sensors about: active, with a
\* first vehicle that has a sensor state.
observed_agent_ids ==
    {a \in active_agents :
        /\ ~is_boid_agent(a)
        /\ FirstVehicle(a) # None
        /\ sensor_state_exists(FirstVehicle(a))}

\* The keys of the rewards and of the scores of observe(): the observed
\* standard agents and the active boid agents. The observations have the
\* same keys: the sensors observe the agents they are given.
observe_keys == observed_agent_ids \cup {a \in active_agents : is_boid_agent(a)}

\* _filter_for_active_ego over a dict with the given keys: the entry of every
\* ego agent that is not pending is read.
_filter_for_active_ego(keys) ==
    LET active_ego == _ego_agent_ids \ _pending_agent_ids
    IN  IF active_ego \subseteq keys THEN Returns(active_ego) ELSE Raises("KeyError", {})

\* An observe that takes the agents it reports out of the pending set.
observe_AdmitsPending(should_reset, done_agents, done_vehicles) ==
    /\ pc = "idle"
    /\ LET observed == observe_dones(should_reset, done_agents, done_vehicles)
       IN  /\ last' = [Outcome("observe", None, observed.error,
                                IF should_reset THEN "reset" ELSE None, NoKinematics)
                       EXCEPT !.dones = observed.value]
           /\ _pending_agent_ids' = _pending_agent_ids \ DOMAIN observed.value
    /\ UNCHANGED <<regvars, _ego_agent_ids, _social_agent_ids, _pending_social_agent_ids,
                   _agent_interfaces, _social_agent_data_models, _remote_social_agents,
                   _remote_social_agents_action, _reserved_social_agent_actions, _agent_buffer,
                   provider_actors, tick, pc, actions>>

observe(should_reset, done_agents, done_vehicles) ==
    /\ pc = "idle"
    /\ LET observed == observe_dones(should_reset, done_agents, done_vehicles)
       IN  last' = [Outcome("observe", None, observed.error,
                            IF should_reset THEN "reset" ELSE None, NoKinematics)
                    EXCEPT !.dones = observed.value]
    /\ UNCHANGED <<regvars, amvars>>

\* ---------------------------------------------------------- specification
\* One call of the registry, with its arguments drawn from the given sets.
Call(V, A, P, S, R, B, D) ==
    \/ \E agent_id \in A, vehicle_id \in V, route \in R, pose \in P, initial_speed \in S,
          dynamic \in D, boid \in B :
          build_agent_vehicle(agent_id, vehicle_id, route, pose, initial_speed, dynamic, boid)
    \/ \E vehicle_id \in V, role \in ActorRole, pose \in P, speed \in S,
          owner_id \in A \cup {None} :
          build_social_vehicle(vehicle_id, role, pose, speed, owner_id)
    \/ \E vehicle_id \in V, agent_id \in A, route \in R, boid \in B :
          start_agent_observation(vehicle_id, agent_id, route, boid)
    \/ \E vehicle_id \in V, agent_id \in A, boid \in B, hijacking \in BOOLEAN, dynamic \in D :
          switch_control_in_place(vehicle_id, agent_id, boid, hijacking, dynamic)
    \/ \E vehicle_id \in V, agent_id \in A, boid \in B, hijacking \in BOOLEAN, dynamic \in D :
          switch_control_recreate(vehicle_id, agent_id, boid, hijacking, dynamic)
    \/ \E shadower_id \in A, vehicle_id \in V \cup {None} :
          stop_shadowing(shadower_id, vehicle_id)
    \/ \E vehicle_id \in V : stop_agent_observation(vehicle_id)
    \/ \E vehicle_id \in V : relinquish_agent_control(vehicle_id)
    \/ \E ids \in SUBSET V : teardown_vehicles_by_vehicle_ids(ids)
    \/ \E owner_ids \in SUBSET A, include_shadowing \in BOOLEAN :
          teardown_vehicles_by_owner_ids(owner_ids, include_shadowing)
    \/ teardown

\* The ownership registry: two vehicles and two agents, every vehicle at the
\* same pose and speed and on the same route.
Next == Call(VehicleIds, AgentIds, {1}, {1}, {"r1"}, BOOLEAN, {FALSE})

Spec == Init /\ [][Next]_vars

\* One vehicle and one agent, with its pose, speed, route and chassis free.
NextKin == Call({"v1"}, {"A"}, Poses, Speeds, Routes, {FALSE}, BOOLEAN)

SpecKin == Init /\ [][NextKin]_vars

\* One vehicle and one agent as in SpecKin, with sync.
NextSync == NextKin \/ sync

SpecSync == Init /\ [][NextSync]_vars

\* A teardown by vehicle id of vehicles that are in the index.
TeardownPresent ==
    \E ids \in SUBSET {id_ \in AgentIds \cup {"v1"} : _2id(id_) \in DOMAIN _vehicles} :
       teardown_vehicles_by_vehicle_ids(ids)

\* Agents whose vehicle is named after them (no vehicle id is given) or is
\* v1, that shadow the traffic vehicle v1, and teardowns by vehicle id. Each
\* of these calls registers the ids it stores, and only vehicles of the index
\* are torn down.
NextIds ==
    \/ \E agent_id \in AgentIds, vehicle_id \in {None, "v1"}, boid \in BOOLEAN :
          build_agent_vehicle(agent_id, vehicle_id, "r1", 1, 1, FALSE, boid)
    \/ build_social_vehicle("v1", Social, 1, 1, None)
    \/ \E agent_id \in AgentIds : start_agent_observation("v1", agent_id, "r1", FALSE)
    \/ TeardownPresent

SpecIds == Init /\ [][NextIds]_vars

\* One call of the agent manager's roster, with its arguments drawn from the
\* given sets, or the registry call that takes the vehicles of agents away.
RosterCall(A, Act, M, W, Acc, F) ==
    \/ \E agent_id \in A, for_trap \in BOOLEAN : add_ego_agent(agent_id, "Lane", for_trap)
    \/ _setup_social_agents(A)
    \/ \E ids \in SUBSET A : remove_pending_agent_ids(ids)
    \/ \E agent_id \in A, agent_model \in M, wedged \in W :
          start_social_agent(agent_id, "Lane", agent_model, wedged)
    \/ \E agent_id \in A, action \in Act, agent_model \in M, wedged \in W, accepting \in Acc :
          add_and_emit_social_agent(agent_id, action, agent_model, wedged, accepting)
    \/ \E filter_ids \in F : teardown_ego_agents(filter_ids)
    \/ \E filter_ids \in F : teardown_social_agents(filter_ids)
    \/ AgentManager_teardown
    \/ teardown_vehicles_by_owner_ids(A, TRUE)

\* The providers that accept: none, the last one only, or all of them.
Accepting == {{}, {"P3"}, {"P1", "P2", "P3"}}

Filters == {NoFilter} \cup {Filter(ids) : ids \in SUBSET AgentIds}

\* The roster of the agent manager over the registry: two agents, one data
\* model, no wedged controller.
NextAM ==
    RosterCall(AgentIds, {"Lane", "Direct"}, {SocialAgentModel("v1", FALSE, FALSE)},
               {FALSE}, Accepting, Filters)

SpecAM == Init /\ [][NextAM]_vars

\* The data model an agent comes with: A drives one vehicle, B is a boid.
ModelOf(agent_id) ==
    IF agent_id = "A" THEN SocialAgentModel("v1", FALSE, FALSE)
    ELSE SocialAgentModel("v2", TRUE, TRUE)

\* The tick of the agent manager: two social agents that are emitted with a
\* vehicle and a controller that may be wedged, reservations, the sending of
\* observations (of both agents, or of A only), the controllers' answers and
\* the fetching of actions.
NextTick ==
    \/ \E agent_id \in AgentIds, wedged \in BOOLEAN :
          add_and_emit_social_agent(agent_id, "Lane", ModelOf(agent_id), wedged, {"P2"})
    \/ teardown_vehicles_by_owner_ids(AgentIds, TRUE)
    \/ \E agent_id \in AgentIds : reserve_social_agent_action(agent_id, ReservedAction)
    \/ \E ids \in {AgentIds, {"A"}} :
          _send_observations_to_social_agents(Observations(ids, tick))
    \/ \E agent_id \in AgentIds : set_result(agent_id)
    \/ fetch_agent_actions_call([a \in {"A"} |-> EgoAction])
    \/ fetch_agent_actions_return

SpecTick == Init /\ [][NextTick]_vars

\* The controllers that are not wedged answer in the end, and a fetch whose
\* futures all have a result returns.
Fairness ==
    /\ \A agent_id \in AgentIds : WF_vars(set_result(agent_id))
    /\ WF_vars(fetch_agent_actions_return)

SpecTickFair == SpecTick /\ Fairness

\* The data models an agent may be started with: A is a standard agent, B a
\* boid agent that is kept alive or not.
ModelsOf(agent_id) ==
    IF agent_id = "A" THEN {SocialAgentModel("v1", FALSE, FALSE)}
    ELSE {SocialAgentModel("v2", TRUE, TRUE), SocialAgentModel("v2", TRUE, FALSE)}

MaxObsTick == 1

\* The traffic vehicle an agent is let into.
VehicleOf(agent_id) == IF agent_id = "A" THEN "v1" ELSE "v2"

\* The airlock: social agents get a handle first, then shadow a traffic
\* vehicle, then take it over; B may also be added as a pending ego agent.
Airlock ==
    \/ add_ego_agent("B", "Lane", TRUE)
    \/ \E agent_id \in AgentIds : \E agent_model \in ModelsOf(agent_id) :
          start_social_agent(agent_id, "Lane", agent_model, FALSE)
    \/ \E agent_id \in AgentIds :
          build_social_vehicle(VehicleOf(agent_id), Social, 1, 1, None)
    \/ \E agent_id \in AgentIds :
          start_agent_observation(VehicleOf(agent_id), agent_id, "r1", agent_id = "B")
    \/ \E agent_id \in AgentIds :
          switch_control_in_place(VehicleOf(agent_id), agent_id, agent_id = "B", TRUE, FALSE)

\* fetch_agent_actions is called with an action for every ego agent, in the
\* first tick only.
FetchOnce ==
    /\ tick < MaxObsTick
    /\ fetch_agent_actions_call([a \in _ego_agent_ids |-> EgoAction])

\* The airlock with one tick of actions: observations are sent, the
\* controllers answer with an action or with none, and the actions are
\* fetched with an action for every ego agent.
NextFetch ==
    \/ Airlock
    \/ _send_observations_to_social_agents(Observations(AgentIds, tick))
    \/ \E agent_id \in AgentIds : set_result(agent_id)
    \/ \E agent_id \in AgentIds : set_result_none(agent_id)
    \/ FetchOnce
    \/ fetch_agent_actions_return

SpecFetch == Init /\ [][NextFetch]_vars

\* The airlock with observations: the sensors report every agent and vehicle
\* done or none, and the simulation asks for a reset or not.
NextObs ==
    \/ Airlock
    \/ add_ego_agent("A", "Lane", TRUE)
    \/ \E agent_id \in AgentIds : remove_pending_agent_ids({agent_id})
    \/ \E should_reset, done \in BOOLEAN :
          observe(should_reset, IF done THEN AgentIds ELSE {}, IF done THEN VehicleIds ELSE {})

SpecObs == Init /\ [][NextObs]_vars

\* One tick read in full: ego agent A with its vehicle v1, social agent B let
\* into the traffic vehicle v2, observe, the observations sent to the
\* controllers, their answers, and the actions fetched.
NextRead ==
    \/ add_ego_agent("A", "Lane", TRUE)
    \/ remove_pending_agent_ids({"A"})
    \/ build_agent_vehicle("A", "v1", "r1", 1, 1, FALSE, FALSE)
    \/ \E agent_model \in ModelsOf("B") : start_social_agent("B", "Lane", agent_model, FALSE)
    \/ build_social_vehicle("v2", Social, 1, 1, None)
    \/ start_agent_observation("v2", "B", "r1", TRUE)
    \/ switch_control_in_place("v2", "B", TRUE, TRUE, FALSE)
    \/ \E should_reset, done \in BOOLEAN :
          observe(should_reset, IF done THEN AgentIds ELSE {}, IF done THEN VehicleIds ELSE {})
    \/ _send_observations_to_social_agents(Observations(AgentIds, tick))
    \/ \E agent_id \in AgentIds : set_result(agent_id)
    \/ FetchOnce
    \/ fetch_agent_actions_return

SpecRead == Init /\ [][NextRead]_vars

\* A tick in which social agents leave: two social agents emitted with a
\* vehicle and a controller that may be wedged, the observations sent, the
\* controllers' answers, one agent or the other torn down, and the actions
\* fetched.
NextLeave ==
    \/ \E agent_id \in AgentIds, wedged \in BOOLEAN :
          add_and_emit_social_agent(agent_id, "Lane", ModelOf(agent_id), wedged, {"P2"})
    \/ _send_observations_to_social_agents(Observations(AgentIds, tick))
    \/ \E agent_id \in AgentIds : set_result(agent_id)
    \/ \E agent_id \in AgentIds : teardown_social_agents(Filter({agent_id}))
    \/ fetch_agent_actions_call(EmptyDict)
    \/ fetch_agent_actions_return

SpecLeave == Init /\ [][NextLeave]_vars

SpecLeaveFair == SpecLeave /\ Fairness

\* ------------------------------------------------------------ properties
\* The row the registry reads for a vehicle: the first row with its id.
Record(tbl, vehicle_id) == First(tbl, VIndex(tbl, _2id(vehicle_id)))

HasRecord(tbl, vehicle_id) == VIndex(tbl, _2id(vehicle_id)) # {}

\* The rows of every other vehicle, in table order.
OtherRecords(tbl, vehicle_id) == SelectSeq(tbl, LAMBDA r : r.vehicle_id # _2id(vehicle_id))

\* A live vehicle: it exists and has a row.
Live(vehicle_id) ==
    _2id(vehicle_id) \in DOMAIN _vehicles /\ HasRecord(_controlled_by, vehicle_id)

Owners(tbl, vehicle_id) ==
    {tbl[i].owner_id : i \in VIndex(tbl, _2id(vehicle_id))} \ {Empty}

Shadowers(tbl, vehicle_id) ==
    {tbl[i].shadower_id : i \in VIndex(tbl, _2id(vehicle_id))} \ {Empty}

\* C1: at every point of any sequence of registry operations, every vehicle id
\* in the registry has at most one owner and at most one shadower.
C1_SingleOwnerAndShadower ==
    \A v \in VehicleIds :
        /\ Cardinality(Owners(_controlled_by, v)) <= 1
        /\ Cardinality(Shadowers(_controlled_by, v)) <= 1

\* C2: vehicle_id is unique across the rows of the table in every reachable
\* state.
C2_UniqueVehicleId ==
    \A i, j \in 1..Len(_controlled_by) :
        i # j => _controlled_by[i].vehicle_id # _controlled_by[j].vehicle_id

\* C3: a row has an owner if and only if its role is EgoAgent or SocialAgent;
\* a traffic row never has an owner.
C3_OwnerIffAgentRole ==
    \A i \in 1..Len(_controlled_by) :
        (_controlled_by[i].owner_id # Empty)
            <=> (_controlled_by[i].role \in {EgoAgent, SocialAgent})

\* The row a hand-off to agent_id has to leave for the vehicle.
HandedOver(tbl, vehicle_id, agent_id, boid, hijacking) ==
    /\ HasRecord(tbl, vehicle_id)
    /\ LET r == Record(tbl, vehicle_id)
       IN  /\ r.role = (IF hijacking THEN SocialAgent ELSE EgoAgent)
           /\ r.owner_id = _2id(agent_id)
           /\ r.shadower_id = Empty
           /\ r.is_hijacked = hijacking
           /\ r.is_boid = boid

\* C4: a hand-off of a live vehicle v to agent A (in place, or recreating the
\* vehicle) leaves v's row with role SocialAgent if hijacking else EgoAgent,
\* owner A, no shadower, is_hijacked = hijacking, is_boid = boid, and leaves
\* the rows of every other vehicle as they were; in place it succeeds whoever
\* owned or shadowed v before.
C4_TransferSetsRecord ==
    [][\A v \in VehicleIds :
          /\ (/\ last'.op = "switch_control_to_agent"
               /\ last'.vehicle_id = v
               /\ Live(v))
              => last'.error = Ok
          /\ (/\ last'.op \in {"switch_control_to_agent", "switch_control_to_agent_recreate"}
               /\ last'.vehicle_id = v
               /\ last'.error = Ok)
              => /\ HandedOver(_controlled_by', v, last'.args.agent_id, last'.args.boid,
                               last'.before.hijacking)
                 /\ OtherRecords(_controlled_by', v) = OtherRecords(_controlled_by, v)]_vars

\* C4 witness: a hijacking hand-off of a boid vehicle has succeeded while
\* another vehicle is owned by an agent.
C4_Witness ==
    /\ last.op = "switch_control_to_agent"
    /\ last.error = Ok
    /\ last.before.hijacking
    /\ HasRecord(_controlled_by, last.vehicle_id)
    /\ Record(_controlled_by, last.vehicle_id).is_boid
    /\ Record(_controlled_by, last.vehicle_id).is_hijacked
    /\ \E w \in VehicleIds \ {last.vehicle_id} :
          HasRecord(_controlled_by, w) /\ Record(_controlled_by, w).owner_id # Empty

\* C5: a hand-off without hijacking of a vehicle that already has a different
\* owner fails with an error and does not change the vehicle's row.
C5_DuplicateOwnerRejected ==
    [][\A v \in VehicleIds, a \in AgentIds, b \in BOOLEAN, d \in BOOLEAN :
          (/\ Live(v)
           /\ Record(_controlled_by, v).owner_id \notin {Empty, _2id(a)}
           /\ switch_control_in_place(v, a, b, FALSE, d))
          => /\ last'.error # Ok
             /\ Record(_controlled_by', v) = Record(_controlled_by, v)]_vars

\* C6: hijacking a vehicle that an ego agent owns raises unless the vehicle was
\* relinquished first; after a relinquish the hijack succeeds and leaves
\* owner = S, role = SocialAgent.
C6_HijackOfEgoVehicleRejected ==
    [][\A v \in VehicleIds, s \in AgentIds, b \in BOOLEAN, d \in BOOLEAN :
          (Live(v) /\ switch_control_in_place(v, s, b, TRUE, d))
          => /\ (/\ Record(_controlled_by, v).role = EgoAgent
                 /\ Record(_controlled_by, v).owner_id \notin {Empty, _2id(s)})
                => last'.error # Ok
             /\ (last.op = "relinquish_agent_control" /\ last.vehicle_id = v /\ last.error = Ok)
                => /\ last'.error = Ok
                   /\ Record(_controlled_by', v).owner_id = _2id(s)
                   /\ Record(_controlled_by', v).role = SocialAgent]_vars

Relinquished(tbl, vehicle_id) ==
    /\ HasRecord(tbl, vehicle_id)
    /\ LET r == Record(tbl, vehicle_id)
       IN  /\ r.role = Social
           /\ r.owner_id = Empty
           /\ r.shadower_id = Empty
           /\ ~r.is_hijacked
           /\ ~r.is_boid

ShadowerCleared(tbl, idx) ==
    [i \in 1..Len(tbl) |-> IF i \in idx THEN [tbl[i] EXCEPT !.shadower_id = Empty] ELSE tbl[i]]

\* C9: stop_shadow(S) clears shadower_id on every vehicle S shadows and
\* stop_shadow(S, v) only on v; every other field of every row, the affected
\* ones included, is unchanged.
C9_StopShadowFrame ==
    [][\A s \in AgentIds, v \in VehicleIds \cup {None} :
          stop_shadowing(s, v)
          => _controlled_by' = ShadowerCleared(_controlled_by,
                                               StopShadowingMask(_controlled_by, s, v))]_vars

\* C10: begin_shadow(v, A) on a live vehicle sets v's shadower to A and leaves
\* v's owner, role and is_hijacked as they were; on an unknown vehicle id it
\* fails and leaves the table unchanged.
C10_BeginShadow ==
    [][\A v \in VehicleIds :
          (last'.op = "start_agent_observation" /\ last'.vehicle_id = v)
          => /\ Live(v)
                => /\ last'.error = Ok
                   /\ HasRecord(_controlled_by', v)
                   /\ Record(_controlled_by', v).shadower_id = _2id(last'.args.agent_id)
                   /\ Record(_controlled_by', v).owner_id = Record(_controlled_by, v).owner_id
                   /\ Record(_controlled_by', v).role = Record(_controlled_by, v).role
                   /\ Record(_controlled_by', v).is_hijacked
                        = Record(_controlled_by, v).is_hijacked
             /\ _2id(v) \notin DOMAIN _vehicles
                => /\ last'.error # Ok
                   /\ _controlled_by' = _controlled_by]_vars

\* C10 witness: an agent has begun to shadow a vehicle that another agent owns.
C10_Witness ==
    /\ last.op = "start_agent_observation"
    /\ last.error = Ok
    /\ HasRecord(_controlled_by, last.vehicle_id)
    /\ Record(_controlled_by, last.vehicle_id).owner_id # Empty
    /\ Record(_controlled_by, last.vehicle_id).shadower_id
         \notin {Empty, Record(_controlled_by, last.vehicle_id).owner_id}

\* C13: build_social_vehicle rejects a vehicle state whose role is EgoAgent or
\* SocialAgent (no row of such a role is ever inserted by it, and a rejected
\* call leaves the table as it was), and otherwise inserts one row, for the
\* given vehicle id, with no shadower, is_boid = false and is_hijacked = false.
C13_SocialVehicleRecord ==
    [][last'.op = "build_social_vehicle"
       => IF last'.error = Ok
          THEN /\ Len(_controlled_by') = Len(_controlled_by) + 1
               /\ Tail(_controlled_by') = _controlled_by
               /\ Head(_controlled_by').vehicle_id = _2id(last'.vehicle_id)
               /\ Head(_controlled_by').role \notin {EgoAgent, SocialAgent}
               /\ Head(_controlled_by').shadower_id = Empty
               /\ ~Head(_controlled_by').is_boid
               /\ ~Head(_controlled_by').is_hijacked
          ELSE /\ last'.error = "AssertionError"
               /\ _controlled_by' = _controlled_by]_vars

\* C13 witness: a traffic vehicle has been registered next to a vehicle an
\* agent owns.
C13_Witness ==
    /\ last.op = "build_social_vehicle"
    /\ last.error = Ok
    /\ Len(_controlled_by) = 2
    /\ _controlled_by[1].role = Social
    /\ _controlled_by[2].owner_id # Empty

\* Agent a owns every vehicle of VehicleIds as a boid.
BoidOwnsAll(a) ==
    \A v \in VehicleIds :
        /\ Live(v)
        /\ \A i \in VIndex(_controlled_by, _2id(v)) :
              _controlled_by[i].owner_id = _2id(a) /\ _controlled_by[i].is_boid

\* C14: when agent A owns v1 and v2 as a boid, teardown_vehicles_by_owner_ids
\* over owner ids that include A returns normally and removes the rows of
\* both: afterwards vehicle_ids_by_owner_id(A), with or without shadowers, is
\* empty and neither vehicle is in vehicle_ids() or agent_vehicle_ids().
C14_BoidTeardown ==
    [][last'.op = "teardown_vehicles_by_owner_ids"
       => \A a \in AgentIds :
             BoidOwnsAll(a)
             => \A owner_ids \in SUBSET AgentIds :
                   (a \in owner_ids /\ teardown_vehicles_by_owner_ids(owner_ids, TRUE))
                   => /\ last'.error = Ok
                      /\ last'.removed = VehicleIds
                      /\ vehicle_ids_by_owner_id(_controlled_by', _2id_to_id', a, TRUE)
                           = Returns({})
                      /\ vehicle_ids_by_owner_id(_controlled_by', _2id_to_id', a, FALSE)
                           = Returns({})
                      /\ vehicle_ids(_controlled_by', _2id_to_id').value \cap VehicleIds = {}
                      /\ agent_vehicle_ids(_controlled_by', _2id_to_id').value \cap VehicleIds
                           = {}
                      /\ \A v \in VehicleIds : _2id(v) \notin DOMAIN _vehicles']_vars

\* C14 witness: a teardown by owner has removed two vehicles at once.
C14_Witness ==
    /\ last.op = "teardown_vehicles_by_owner_ids"
    /\ last.error = Ok
    /\ last.removed = VehicleIds
    /\ _controlled_by = <<>>

\* A vehicle id the registry does not hold: torn down, or never registered.
Stale(vehs, tbl, vehicle_id) ==
    _2id(vehicle_id) \notin DOMAIN vehs /\ ~HasRecord(tbl, vehicle_id)

\* Every query about a stale vehicle id returns its empty result.
StaleQueriesEmpty ==
    \A v \in VehicleIds :
        Stale(_vehicles, _controlled_by, v)
        => /\ owner_id_from_vehicle_id(_controlled_by, _2id_to_id, v) = Returns(None)
           /\ shadower_id_from_vehicle_id(_controlled_by, _2id_to_id, v) = Returns(None)
           /\ vehicle_is_hijacked_or_shadowed(_controlled_by, v) = Returns(<<FALSE, FALSE>>)
           /\ vehicle_position(_controlled_by, v) = Returns(None)

\* C15: a query about a vehicle that was torn down or never registered returns
\* an empty result instead of raising (owner None, shadower None, (false,
\* false) for hijacked-or-shadowed, position None), and a teardown of such ids
\* changes nothing.
C15_StaleVehicleReference ==
    /\ []StaleQueriesEmpty
    /\ [][last'.op = "teardown_vehicles_by_vehicle_ids"
          => \A ids \in SUBSET VehicleIds :
                (/\ \A v \in ids : Stale(_vehicles, _controlled_by, v)
                 /\ teardown_vehicles_by_vehicle_ids(ids))
                => UNCHANGED <<_controlled_by, _vehicles, _2id_to_id, _controller_states,
                               sensor_states>>]_vars

\* C15 witness: one vehicle has been torn down while the other is still owned
\* and shadowed.
C15_Witness ==
    /\ last.op = "teardown_vehicles_by_vehicle_ids"
    /\ \E v, w \in VehicleIds :
          /\ Stale(_vehicles, _controlled_by, v)
          /\ v \in DOMAIN sensor_states \/ _2id("A") \in DOMAIN _2id_to_id
          /\ Live(w)
          /\ Record(_controlled_by, w).owner_id # Empty
          /\ Record(_controlled_by, w).shadower_id # Empty

\* The call before this state was an add_and_emit_social_agent that was not
\* turned down: it went on to register a vehicle.
Registering == last.op = "add_and_emit_social_agent" /\ last.ret # "False"

\* The call before this state was an add_and_emit_social_agent that added the
\* agent.
AddedAgent == last.op = "add_and_emit_social_agent" /\ last.ret = "True"

\* The state shown to the provider that accepted the actor.
Announced == provider_actors[Len(provider_actors)].state

\* C11: the row inserted for an agent's vehicle has the role that follows
\* from trainable (EgoAgent if trainable, SocialAgent if not), which is the
\* role announced to the provider that accepts the vehicle. The agent manager
\* registers with trainable false.
C11_RowRoleIsAnnouncedRole ==
    AddedAgent
        => /\ Announced.role = SocialAgent
           /\ _controlled_by[1].vehicle_id = _2id(Announced.actor_id)
           /\ _controlled_by[1].role = Announced.role

\* The positions in the provider list of the providers that support an action
\* space, and of those of them that accept.
Supporting(action) == {i \in 1..Len(Providers) : action \in ProviderActions(Providers[i])}

Willing(action, accepting) == {i \in Supporting(action) : Providers[i] \in accepting}

ProviderIndex(provider) == CHOOSE i \in 1..Len(Providers) : Providers[i] = provider

Asked(log) == SelectSeq(log, LAMBDA c : c.call = "can_accept_actor")

AddActorCalls(log) == SelectSeq(log, LAMBDA c : c.call = "add_actor")

\* The providers were asked in list order, and only ones that support the
\* action space.
AskedInOrder(log, action) ==
    /\ \A j \in 1..Len(Asked(log)) : ProviderIndex(Asked(log)[j].provider) \in Supporting(action)
    /\ \A j, k \in 1..Len(Asked(log)) :
          j < k => ProviderIndex(Asked(log)[j].provider) < ProviderIndex(Asked(log)[k].provider)

\* C12: a registration asks the providers in list order; add_actor is called
\* exactly once, as the last call, on the first provider that supports the
\* action space and accepts, and no later provider is asked; when no provider
\* accepts every supporting provider has been asked, none is given the actor
\* and the registration fails with an assertion error.
C12_FirstAcceptingProvider ==
    [][Registering'
       => \A agent_id \in AgentIds, action \in {"Lane", "Direct"}, accepting \in Accepting :
             add_and_emit_social_agent(agent_id, action, SocialAgentModel("v1", FALSE, FALSE),
                                       FALSE, accepting)
             => LET log == provider_actors'
                    first == Min(Willing(action, accepting))
                IN  /\ AskedInOrder(log, action)
                    /\ IF Willing(action, accepting) # {}
                       THEN /\ last'.error = Ok
                            /\ Len(AddActorCalls(log)) = 1
                            /\ log[Len(log)].call = "add_actor"
                            /\ log[Len(log)].provider = Providers[first]
                            /\ {ProviderIndex(c.provider) : c \in {Asked(log)[j] : j \in 1..Len(Asked(log))}}
                                  = {i \in Supporting(action) : i <= first}
                       ELSE /\ last'.error = "AssertionError"
                            /\ AddActorCalls(log) = <<>>
                            /\ {ProviderIndex(c.provider) : c \in {Asked(log)[j] : j \in 1..Len(Asked(log))}}
                                  = Supporting(action)
                            /\ _social_agent_ids' = _social_agent_ids]_vars

\* C12 witness: a registration where the first supporting provider refused and
\* the next one took the actor.
C12_Witness ==
    /\ AddedAgent
    /\ Len(Asked(provider_actors)) = 2
    /\ Len(AddActorCalls(provider_actors)) = 1

\* A registration that found no provider.
C12_WitnessFatal == Registering /\ last.error = "AssertionError" /\ Len(Asked(provider_actors)) = 2

\* C16: add_and_emit_social_agent returns false whenever the id is an ego
\* agent's, a social agent's or a pending one, and a call that returns false
\* acquires no handle, builds no vehicle and leaves the roster sets, the
\* interfaces and the data models as they were.
C16_ReservedIdRejected ==
    [][last'.op = "add_and_emit_social_agent"
       => LET agent_id == last'.args.agent_id
          IN  /\ agent_id \in _ego_agent_ids \cup _social_agent_ids \cup _pending_agent_ids
                    => last'.ret = "False"
              /\ last'.ret = "False"
                    => UNCHANGED <<_agent_buffer, regvars, provider_actors, _ego_agent_ids,
                                   _social_agent_ids, _pending_agent_ids,
                                   _pending_social_agent_ids, _agent_interfaces,
                                   _social_agent_data_models, _remote_social_agents>>]_vars

\* C16 witness: a call was turned down for the id of an ego agent that is not
\* pending, while another agent has a handle and a vehicle.
C16_Witness ==
    /\ last.op = "add_and_emit_social_agent"
    /\ last.ret = "False"
    /\ last.args.agent_id \in _ego_agent_ids \ (_social_agent_ids \cup _pending_agent_ids)
    /\ _social_agent_ids # {}
    /\ _controlled_by # <<>>

\* The handles of the pool that were started.
Started == {h \in 1..Len(_agent_buffer) : _agent_buffer[h].started}

\* Between this state and the next, terminate() was called once on each handle
\* of hs and on no other handle.
TerminatedOnce(hs) ==
    /\ Len(_agent_buffer') = Len(_agent_buffer)
    /\ \A h \in 1..Len(_agent_buffer) :
          _agent_buffer'[h] =
              [_agent_buffer[h] EXCEPT !.terminated = IF h \in hs THEN @ + 1 ELSE @]

\* teardown_social_agents removes the social agents that pass the filter, and
\* only them, and terminates the handle of each of them once.
SocialTeardownExact ==
    [][last'.op = "teardown_social_agents"
       => \A filter_ids \in Filters :
             teardown_social_agents(filter_ids)
             => LET ids == IF filter_ids.none THEN _social_agent_ids
                           ELSE {a \in _social_agent_ids : a \in filter_ids.ids}
                IN  /\ _social_agent_ids' = _social_agent_ids \ ids
                    /\ _ego_agent_ids' = _ego_agent_ids
                    /\ Keys(_remote_social_agents') = Keys(_remote_social_agents) \ ids
                    /\ TerminatedOnce({Get(_remote_social_agents, a) : a \in ids})]_vars

\* teardown_ego_agents removes the ego agents that pass the filter, and only
\* them; it terminates no handle and removes no social agent.
EgoTeardownExact ==
    [][last'.op = "teardown_ego_agents"
       => \A filter_ids \in Filters :
             teardown_ego_agents(filter_ids)
             => LET ids == IF filter_ids.none THEN _ego_agent_ids
                           ELSE {a \in _ego_agent_ids : a \in filter_ids.ids}
                IN  /\ _ego_agent_ids' = _ego_agent_ids \ ids
                    /\ _social_agent_ids' = _social_agent_ids
                    /\ _remote_social_agents' = _remote_social_agents
                    /\ _agent_buffer' = _agent_buffer]_vars

\* After AgentManager.teardown() the roster is empty and every handle that was
\* started has been terminated once.
TeardownTerminatesAll ==
    last.op = "AgentManager.teardown"
        => /\ _ego_agent_ids = {} /\ _social_agent_ids = {} /\ _pending_agent_ids = {}
           /\ \A h \in Started : _agent_buffer[h].terminated = 1

\* C17: teardown_social_agents(filter) removes exactly the social agents that
\* pass the filter and terminates the handle of each exactly once;
\* teardown_ego_agents(filter) removes exactly the matching ego agents,
\* terminates no handle and removes no social agent; after
\* AgentManager.teardown() the roster is empty and every started handle has
\* been terminated once.
C17_TeardownTerminates ==
    /\ SocialTeardownExact
    /\ EgoTeardownExact
    /\ []TeardownTerminatesAll

\* The first two parts of C17 alone.
C17_FilteredTeardown == SocialTeardownExact /\ EgoTeardownExact

\* The agents whose outstanding future is a wedged controller's.
Wedged ==
    {a \in Outstanding : _agent_buffer[_remote_social_agents_action[a].handle].wedged}

\* fetch_agent_actions has returned, in the step to this state or before.
Fetched == pc = "idle" /\ last.op = "fetch_agent_actions" /\ last.error = Ok

\* A waiting fetch_agent_actions does not return while a future it reads has
\* no result.
FetchWaits == [][pc = "fetching" /\ Outstanding # {} => pc' = "fetching"]_vars

\* What fetch_agent_actions returns is whole: every agent with a handle that
\* owns a vehicle has its entry, and the entry is the result of its future.
FetchWhole ==
    [][pc = "fetching" /\ Fetched'
       => \A a \in Keys(_remote_social_agents) :
             /\ a \in DOMAIN _remote_social_agents_action
                   => _remote_social_agents_action[a].done
             /\ a \in controlling_agent_ids(_controlled_by, _2id_to_id).value
                   => /\ a \in DOMAIN actions'
                      /\ actions'[a].kind = social_agent_actions[a].kind]_vars

\* C18: fetch_agent_actions returns only after the future of every social
\* agent with a handle and without a reserved action has its result, and what
\* it returns is never partial; while a wedged controller's future is
\* outstanding the call never returns; and when every outstanding future gets
\* its result in the end, the call returns.
C18_FetchBlocks ==
    /\ FetchWaits
    /\ FetchWhole
    /\ [](pc = "fetching" /\ Wedged # {} => [](pc = "fetching"))
    /\ (pc = "fetching" /\ Wedged = {}) ~> (pc = "idle")

\* C18 witness: a fetch has returned the answer of a controller, which it had
\* to wait for, next to a reserved action.
C18_Witness ==
    /\ Fetched
    /\ \E a, b \in DOMAIN actions : actions[a].kind = "act" /\ actions[b].kind = "reserved"

\* A fetch is waiting for a wedged controller.
C18_WitnessWedged == pc = "fetching" /\ Wedged # {}

\* The social agents fetch_agent_actions returns an action for.
Acting ==
    DOMAIN _filter_social_agent_actions_for_controlled_vehicles(
               _controlled_by, _2id_to_id, social_agent_actions).value

\* C19: the action fetch_agent_actions returns for a social agent at tick T
\* is a reserved action or the answer to the act request made with the
\* agent's observation of tick T, never of an earlier tick, whatever the
\* order of sends, fetches and roster changes.
C19_ActionOfThisTick ==
    [][pc = "fetching" /\ Fetched'
       => \A a \in Acting :
             \/ actions'[a].kind = "reserved"
             \/ actions'[a].kind = "act" /\ actions'[a].tick = tick]_vars

\* The part of C19 that does not depend on how ticks are counted: no agent
\* with a handle and a vehicle is returned without an action.
C19_NoMissingAction ==
    [][pc = "fetching" /\ Fetched' => \A a \in Acting : actions'[a].kind # "None"]_vars

\* The other part: a returned answer is never to an earlier tick's observation.
C19_NoStaleAction ==
    [][pc = "fetching" /\ Fetched'
       => \A a \in Acting : actions'[a].kind = "act" => actions'[a].tick = tick]_vars

\* The step is a _send_observations_to_social_agents.
Sent == last'.op = "_send_observations_to_social_agents"

\* The sending of a tick's observations gives an agent with a reservation a
\* future that holds the reserved action, without asking its handle, gives
\* every other agent it gets to the pending answer of its handle to this
\* tick's observation, and leaves no reservation behind.
ReservationTaken ==
    [][Sent
       => /\ _reserved_social_agent_actions' = EmptyDict
          /\ \A a \in Keys(_remote_social_agents) :
                IF a \in DOMAIN _reserved_social_agent_actions
                THEN _remote_social_agents_action'[a] =
                         Future(TRUE, 0, _reserved_social_agent_actions[a])
                ELSE /\ last'.error = Ok => a \in DOMAIN _remote_social_agents_action'
                     /\ a \in DOMAIN _remote_social_agents_action'
                           => _remote_social_agents_action'[a] =
                                  act(Get(_remote_social_agents, a), tick)]_vars

\* fetch_agent_actions returns the reserved action of an agent that owns a
\* vehicle as it was reserved (a boid's cut down to the vehicles it owns), and
\* the answer of the controller for an agent that was asked.
ReservationReturned ==
    [][pc = "fetching" /\ Fetched'
       => \A a \in Acting :
             a \in DOMAIN _remote_social_agents_action
             => LET future == _remote_social_agents_action[a]
                IN  /\ actions'[a].kind = future.result.kind
                    /\ future.handle = 0 => actions'[a].kind = "reserved"
                    /\ ~is_boid_agent(a) => actions'[a] = future.result
                    /\ is_boid_agent(a)
                          => actions'[a] =
                                 [future.result EXCEPT !.vehicles =
                                     @ \cap vehicle_ids_by_owner_id(_controlled_by, _2id_to_id,
                                                                    a, FALSE).value]]_vars

C30_StandardAgentOneVehicle ==
    \A i, j \in 1..Len(_controlled_by) :
        (/\ i # j
         /\ _controlled_by[i].owner_id # Empty
         /\ _controlled_by[i].owner_id = _controlled_by[j].owner_id)
        => _controlled_by[i].is_boid /\ _controlled_by[j].is_boid

\* The part of C30 for two different vehicles.
C30_TwoVehicles ==
    \A i, j \in 1..Len(_controlled_by) :
        (/\ _controlled_by[i].vehicle_id # _controlled_by[j].vehicle_id
         /\ _controlled_by[i].owner_id # Empty
         /\ _controlled_by[i].owner_id = _controlled_by[j].owner_id)
        => _controlled_by[i].is_boid /\ _controlled_by[j].is_boid

\* C27: no agent id is an ego agent and a social agent at once.
C27_EgoSocialDisjoint == _ego_agent_ids \cap _social_agent_ids = {}

\* The vehicles an agent owns or shadows, as agent_has_vehicle counts them.
HasVehicle(agent_id) == owner_rows(_controlled_by, agent_id, TRUE) # {}

\* C29: an agent of the roster that owns and shadows no vehicle is pending or
\* a keep-alive boid agent.
C29_NoVehicleOnlyWhilePending ==
    \A a \in agent_ids :
        ~HasVehicle(a) => a \in _pending_agent_ids \/ is_boid_keep_alive_agent(a)

\* The agent id is an agent's or pending.
Rostered(a) == a \in _ego_agent_ids \cup _social_agent_ids \cup _pending_agent_ids

\* The agent id was torn down by the call before this state.
TornDown(a) ==
    /\ last.op \in {"teardown_ego_agents", "teardown_social_agents", "AgentManager.teardown"}
    /\ a \in last.removed

\* C28: TORN_DOWN is terminal: once an agent id has been torn down, no later
\* operation makes it an agent's id or pending again; here for the operation
\* that follows the teardown.
C28_TornDownIsTerminal ==
    [][\A a \in AgentIds : TornDown(a) /\ ~Rostered(a) => ~Rostered(a)']_vars

\* The rows an agent owns.
OwnedRows(agent_id) ==
    {i \in 1..Len(_controlled_by) : _controlled_by[i].owner_id = _2id(agent_id)}

\* The rows of a boid's action: one for each vehicle it has an entry for.
ActionRows(action) ==
    {i \in 1..Len(_controlled_by) :
        \E v \in action.vehicles : _controlled_by[i].vehicle_id = _2id(v)}

\* The social agents with a handle whose future has an answer.
Answered ==
    {a \in Awaited : /\ _remote_social_agents_action[a].done
                      /\ _remote_social_agents_action[a].result.kind = "act"}

C21_WitnessBoid ==
    /\ Fetched
    /\ \E a \in Answered \cap DOMAIN actions :
          /\ is_boid_agent(a)
          /\ actions[a].vehicles # {}
          /\ actions[a].vehicles # VehicleIds

\* C22: what fetch_agent_actions(ego_actions) returns maps every key of
\* ego_actions to the ego action that was supplied: the keys of the ego
\* actions and of the filtered social actions are disjoint, and no ego
\* action is replaced by a social action.
C22_EgoActionsKept ==
    [][pc = "fetching" /\ Fetched'
       => \A a \in DOMAIN actions : a \in DOMAIN actions' /\ actions'[a] = actions[a]]_vars

\* The disjointness C22 rests on, at the moment fetch_agent_actions merges.
C22_DisjointKeys ==
    pc = "fetching" => DOMAIN actions \cap Acting = {}

\* The agents of a waiting fetch_agent_actions whose controller answered None.
Unanswered ==
    {a \in Awaited : /\ _remote_social_agents_action[a].done
                      /\ _remote_social_agents_action[a].result = NoAction}

\* The registry answers the queries of the filter for every agent.
RegistryAnswers ==
    /\ controlling_agent_ids(_controlled_by, _2id_to_id).error = Ok
    /\ \A a \in AgentIds : vehicle_ids_by_owner_id(_controlled_by, _2id_to_id, a, FALSE).error = Ok

\* C23: a social controller that returns no action is a recoverable
\* condition: fetch_agent_actions completes without raising, for standard
\* agents and for boid agents that own vehicles, and what it returns has no
\* action for that agent.
C23_MissingActionRecoverable ==
    [][pc = "fetching" /\ pc' = "idle" /\ Unanswered # {} /\ RegistryAnswers
       => /\ last'.error = Ok
          /\ \A a \in Unanswered \ DOMAIN actions :
                a \in DOMAIN actions' => actions'[a] = NoAction]_vars

\* The standard agents' half of C23: with no answer from a standard agent
\* that owns a vehicle, and none missing from a boid agent that owns one,
\* fetch_agent_actions returns.
C23_StandardAgents ==
    [][/\ pc = "fetching" /\ pc' = "idle" /\ Unanswered # {} /\ RegistryAnswers
       /\ \A a \in Keys(_remote_social_agents) :
             is_boid_agent(a) /\ OwnedRows(a) # {} => a \in Answered
       => /\ last'.error = Ok
          /\ \A a \in Unanswered \ DOMAIN actions :
                a \in DOMAIN actions' => actions'[a] = NoAction]_vars

C23_WitnessStandard ==
    /\ Fetched
    /\ \E a \in Unanswered : ~is_boid_agent(a) /\ a \in DOMAIN actions /\ actions[a] = NoAction

\* C24: is_boid_done(agent) is false for every keep-alive boid agent whatever
\* its vehicles, and for any other agent it is true exactly when the agent
\* owns no vehicle, also for a boid agent that is not kept alive and only
\* shadows a vehicle.
C24_BoidDoneIffOwnsNone ==
    \A a \in agent_ids :
        is_boid_done(a) =
            Returns(IF is_boid_keep_alive_agent(a) THEN FALSE ELSE OwnedRows(a) = {})

\* The keep-alive half of C24, and the other half where the agent shadows
\* no vehicle.
C24_ExceptWhileShadowing ==
    \A a \in agent_ids :
        \/ \E v \in VehicleIds : _2id(a) \in Shadowers(_controlled_by, v)
        \/ is_boid_done(a) =
               Returns(IF is_boid_keep_alive_agent(a) THEN FALSE ELSE OwnedRows(a) = {})

C24_WitnessKeepAlive ==
    \E a \in agent_ids : is_boid_keep_alive_agent(a) /\ ~HasVehicle(a) /\ ~is_boid_done(a).value

C24_WitnessDone ==
    \E a \in agent_ids :
        is_boid_agent(a) /\ ~is_boid_keep_alive_agent(a) /\ ~HasVehicle(a) /\ is_boid_done(a).value

\* observe() has returned its dones, without a forced reset.
Observed == last.op = "observe" /\ last.error = Ok /\ last.ret = None

\* C25: observe() marks done = true for every rostered agent that has no
\* vehicle, owned or shadowed, and is not pending, and does not mark a
\* pending agent without a vehicle as done.
C25_DroppedOutIsDone ==
    Observed
    => \A a \in agent_ids :
          ~HasVehicle(a)
          => a \in DOMAIN last.dones /\ last.dones[a] = DoneFlag(a \notin _pending_agent_ids)

\* C25 for the agents that are pending or not boid agents.
C25_ExceptActiveBoids ==
    Observed
    => \A a \in agent_ids :
          ~HasVehicle(a) /\ (a \in _pending_agent_ids \/ ~is_boid_agent(a))
          => a \in DOMAIN last.dones /\ last.dones[a] = DoneFlag(a \notin _pending_agent_ids)

C25_WitnessDropped ==
    Observed /\ \E a \in agent_ids \ _pending_agent_ids : ~HasVehicle(a) /\ last.dones[a] = DoneFlag(TRUE)

C25_WitnessPending ==
    Observed /\ \E a \in _pending_agent_ids : ~HasVehicle(a) /\ last.dones[a] = DoneFlag(FALSE)

\* observe() was called while the simulation signals a forced reset.
ObservedReset == last.op = "observe" /\ last.ret = "reset"

\* The vehicles an agent owns or shadows.
VehiclesOf(agent_id) ==
    {v \in VehicleIds :
        _2id(agent_id) \in Owners(_controlled_by, v) \cup Shadowers(_controlled_by, v)}

\* The done of an agent is true, for a boid agent for each of its vehicles.
AllDone(dones, a) ==
    /\ a \in DOMAIN dones
    /\ IF is_boid_agent(a)
       THEN /\ dones[a].map
            /\ \A v \in VehiclesOf(a) : v \in DOMAIN dones[a].vehicles /\ dones[a].vehicles[v]
       ELSE dones[a] = DoneFlag(TRUE)

\* C26: when the simulation signals a forced reset, the dones observe()
\* returns are true for every rostered agent, for a boid agent for every one
\* of its vehicles, the call does not fail for a boid agent without
\* vehicles, and the all-done entry "__sim__" is true.
C26_ForcedResetAllDone ==
    ObservedReset
    => /\ last.error = Ok
       /\ \A a \in agent_ids : AllDone(last.dones, a)
       /\ "__sim__" \in DOMAIN last.dones /\ last.dones["__sim__"] = DoneFlag(TRUE)

\* The part of C26 about the call: it does not fail.
C26_ResetDoesNotFail == ObservedReset => last.error = Ok

\* The part of C26 that holds: when the call returns, every entry it returns
\* is true, and so is the all-done entry.
C26_ReturnedEntriesDone ==
    ObservedReset /\ last.error = Ok
    => /\ \A a \in DOMAIN last.dones \cap agent_ids : AllDone(last.dones, a)
       /\ "__sim__" \in DOMAIN last.dones /\ last.dones["__sim__"] = DoneFlag(TRUE)

\* C26 where no agent is pending.
C26_ExceptPending ==
    ObservedReset /\ _pending_agent_ids = {}
    => /\ last.error = Ok
       /\ \A a \in agent_ids : AllDone(last.dones, a)

\* C37: in every reachable registry state a record is hijacked if and only
\* if its role is SocialAgent, whatever the sequence of register, shadow,
\* transfer (in place or recreate), relinquish and teardown operations.
C37_HijackedIffSocialAgent ==
    \A i \in 1..Len(_controlled_by) :
        _controlled_by[i].is_hijacked <=> _controlled_by[i].role = SocialAgent

\* A vehicle has been handed over as hijacked: its record is hijacked with
\* role SocialAgent, next to a record that is neither.
C37_Witness ==
    /\ last.op = "switch_control_to_agent" /\ last.error = Ok /\ last.before.hijacking
    /\ \E i \in 1..Len(_controlled_by) :
          /\ _controlled_by[i].vehicle_id = _2id(last.vehicle_id)
          /\ _controlled_by[i].is_hijacked /\ _controlled_by[i].role = SocialAgent
    /\ \E i \in 1..Len(_controlled_by) :
          ~_controlled_by[i].is_hijacked /\ _controlled_by[i].role # SocialAgent

\* C35: teardown_vehicles_by_owner_ids([A]) with its default arguments never
\* removes a vehicle owned by another agent or by traffic: only vehicles
\* whose owner is A are destroyed, also when A shadows other vehicles.
C35_TeardownByOwnerOnlyOwned ==
    [][last'.op = "teardown_vehicles_by_owner_ids" /\ last'.error = Ok
       => \A a \in AgentIds :
             teardown_vehicles_by_owner_ids({a}, TRUE)
             => \A v \in last'.removed : Owners(_controlled_by, v) = {_2id(a)}]_vars

\* C35 in the states where every vehicle has one row.
C35_WithUniqueRows ==
    [][C2_UniqueVehicleId /\ last'.op = "teardown_vehicles_by_owner_ids" /\ last'.error = Ok
       => \A a \in AgentIds :
             teardown_vehicles_by_owner_ids({a}, TRUE)
             => \A v \in last'.removed : Owners(_controlled_by, v) = {_2id(a)}]_vars

\* What C35 says holds with include_shadowing = False, where every vehicle
\* has one row.
C35_WithoutShadowing ==
    [][C2_UniqueVehicleId /\ last'.op = "teardown_vehicles_by_owner_ids" /\ last'.error = Ok
       => \A a \in AgentIds :
             teardown_vehicles_by_owner_ids({a}, FALSE)
             => \A v \in last'.removed : Owners(_controlled_by, v) = {_2id(a)}]_vars

\* C38: the pending ids are ego or social agent ids after any sequence of
\* roster calls; an agent that is torn down is not left pending;
\* add_ego_agent(id, for_trap = true) puts the id among the ego ids and the
\* pending ids, for_trap = false among the ego ids only.
C38_PendingAreRostered ==
    /\ [](_pending_agent_ids \subseteq _ego_agent_ids \cup _social_agent_ids)
    /\ [](\A a \in AgentIds : TornDown(a) => a \notin _pending_agent_ids)
    /\ [][last'.op = "add_ego_agent"
          => \A a \in AgentIds, for_trap \in BOOLEAN :
                add_ego_agent(a, "Lane", for_trap)
                => /\ a \in _ego_agent_ids'
                   /\ for_trap => a \in _pending_agent_ids'
                   /\ ~for_trap => _pending_agent_ids' = _pending_agent_ids]_vars

\* Ego agents have been torn down through a filter while another agent is
\* still pending.
C38_Witness ==
    /\ last.op = "teardown_ego_agents"
    /\ last.removed # {}
    /\ _pending_agent_ids # {}

\* The handles acquired from the pool that are neither terminated nor the
\* handle recorded for a social agent of the roster.
Leaked ==
    {h \in 1..Len(_agent_buffer) :
        /\ _agent_buffer[h].terminated = 0
        /\ ~\E a \in _social_agent_ids \cap Keys(_remote_social_agents) :
               Get(_remote_social_agents, a) = h}

\* C36: no controller handle leaks: after any sequence of
\* add_and_emit_social_agent, start_social_agent and teardown calls, also
\* after a spawn that fails because no provider accepts the vehicle, every
\* handle acquired from the pool is recorded for a social agent of the
\* roster or has been terminated.
C36_NoHandleLeak == Leaked = {}

\* C36 for the failed spawn alone: no handle is leaked when
\* add_and_emit_social_agent raises.
C36_AfterFailedSpawn ==
    last.op = "add_and_emit_social_agent" /\ last.error # Ok => Leaked = {}

\* C33: in every reachable state the vehicles the registry holds are the
\* vehicles of the record table; a build_social_vehicle that is rejected for
\* an agent role leaves no vehicle without a record, so that a following
\* sync() succeeds.
C33_VehiclesAreRecords ==
    DOMAIN _vehicles = {_controlled_by[i].vehicle_id : i \in 1..Len(_controlled_by)}

\* The consequence C33 draws: sync() succeeds.
C33_SyncSucceeds == last.op = "sync" => last.error = Ok

\* The rejected build_social_vehicle of C33 on its own.
C33_AfterRejectedBuild ==
    last.op = "build_social_vehicle" /\ last.error # Ok
    => \A v \in VehicleIds : _2id(v) \in DOMAIN _vehicles => HasRecord(_controlled_by, v)

\* The vehicle ids of the rows, as the callers know them.
RowVehicles == {_controlled_by[i].vehicle_id[2] : i \in 1..Len(_controlled_by)}

\* C34: every owner_id and shadower_id stored in a record can be resolved
\* back to its original id in every reachable state: after a vehicle whose
\* id equals an agent id is torn down, owner_id_from_vehicle_id,
\* shadower_ids() and shadower_id_from_vehicle_id still succeed for every
\* other vehicle the agent owns or shadows.
C34_StoredIdsResolve ==
    /\ \A i \in 1..Len(_controlled_by) :
          /\ _controlled_by[i].owner_id # Empty => _controlled_by[i].owner_id \in DOMAIN _2id_to_id
          /\ _controlled_by[i].shadower_id # Empty
                => _controlled_by[i].shadower_id \in DOMAIN _2id_to_id
    /\ shadower_ids(_controlled_by, _2id_to_id).error # "KeyError"
    /\ \A v \in RowVehicles :
          /\ owner_id_from_vehicle_id(_controlled_by, _2id_to_id, v).error # "KeyError"
          /\ shadower_id_from_vehicle_id(_controlled_by, _2id_to_id, v).error # "KeyError"

\* The lookups of C34 alone, right after a teardown by vehicle id.
C34_LookupsAfterTeardown ==
    last.op = "teardown_vehicles_by_vehicle_ids"
    => /\ shadower_ids(_controlled_by, _2id_to_id).error = Ok
       /\ \A v \in RowVehicles :
             owner_id_from_vehicle_id(_controlled_by, _2id_to_id, v).error # "KeyError"

\* What a hand-off settles in a record.
Handoff(entity) ==
    [vehicle_id |-> entity.vehicle_id, role |-> entity.role, owner_id |-> entity.owner_id,
     shadower_id |-> entity.shadower_id, is_hijacked |-> entity.is_hijacked,
     is_boid |-> entity.is_boid]

\* The records of a vehicle in a table, as hand-offs.
Handoffs(tbl, v) == {Handoff(tbl[i]) : i \in VIndex(tbl, v)}

\* The table the in-place hand-off of a vehicle to an agent leaves.
InPlace(tbl, v, a, boid, hijacking) ==
    AssignMasked(tbl, VIndex(tbl, v), SwitchedEntity(First(tbl, VIndex(tbl, v)), a, boid, hijacking))

\* The recreate hand-off of the shadowed vehicle of this step returned.
Recreated ==
    /\ last'.op = "switch_control_to_agent_recreate"
    /\ last'.error = Ok
    /\ \E i \in VIndex(_controlled_by, _2id(last'.vehicle_id)) :
          _controlled_by[i].shadower_id = _2id(last'.args.agent_id)

\* The record part of C31: the recreate hand-off of a vehicle shadowed by
\* the agent leaves the records of the vehicle that the in-place hand-off with
\* the same agent, hijacking and boid leaves.
C31_SameRecords ==
    [][Recreated
       => LET v == _2id(last'.vehicle_id)
              inplace == InPlace(_controlled_by, v, _2id(last'.args.agent_id),
                                 last'.args.boid, last'.before.hijacking)
          IN  Handoffs(_controlled_by', v) = Handoffs(inplace, v)]_vars

\* The record part of C31: both hand-offs leave exactly one record for the
\* vehicle.
C31_OneRecord ==
    [][Recreated
       => LET v == _2id(last'.vehicle_id)
              inplace == InPlace(_controlled_by, v, _2id(last'.args.agent_id),
                                 last'.args.boid, last'.before.hijacking)
          IN  /\ Cardinality(VIndex(_controlled_by', v)) = 1
              /\ Cardinality(VIndex(inplace, v)) = 1]_vars

\* The traffic part of C31: the traffic sim that managed the vehicle has the
\* old vehicle deregistered and afterwards the new one registered.
C31_TrafficReregistered ==
    [][Recreated
       => \E i, j \in 1..Len(last'.traffic) :
             /\ i < j
             /\ last'.traffic[i] = "stop_managing"
             /\ last'.traffic[j] = "add_vehicle"]_vars

\* C31: the recreate hand-off is equivalent to the in-place hand-off on the
\* record table: for a vehicle shadowed by the agent, both leave the same
\* vehicle id and the same record for it (role, owner, no shadower,
\* is_hijacked, is_boid), exactly one record for the vehicle, and in the
\* recreate path the traffic sim that managed the vehicle has the old vehicle
\* deregistered and the new one registered.
C31_RecreateEquivalent ==
    [][Recreated
       => LET v == _2id(last'.vehicle_id)
              inplace == InPlace(_controlled_by, v, _2id(last'.args.agent_id),
                                 last'.args.boid, last'.before.hijacking)
          IN  /\ Handoffs(_controlled_by', v) = Handoffs(inplace, v)
              /\ Cardinality(VIndex(_controlled_by', v)) = 1
              /\ Cardinality(VIndex(inplace, v)) = 1
              /\ \E i, j \in 1..Len(last'.traffic) :
                    /\ i < j
                    /\ last'.traffic[i] = "stop_managing"
                    /\ last'.traffic[j] = "add_vehicle"]_vars

\* The ownership state the tick reads: the records and the roster sets.
Snapshot == <<_controlled_by, _ego_agent_ids, _social_agent_ids, _pending_agent_ids>>

\* C32: the per-tick read operations do not mutate ownership state: observe()
\* and fetch_agent_actions() leave every record and the roster sets (ego,
\* social, pending) unchanged, and nothing changes them while the fetch waits,
\* so all registry reads made within one tick see the same snapshot.
C32_ReadsKeepSnapshot ==
    /\ [][last'.op \in {"observe", "fetch_agent_actions"} => UNCHANGED Snapshot]_vars
    /\ [][pc = "fetching" => UNCHANGED Snapshot]_vars

C32_Witness ==
    /\ last.op = "fetch_agent_actions"
    /\ last.error = Ok
    /\ "B" \in DOMAIN actions
    /\ _controlled_by # <<>>
    /\ _pending_agent_ids # {}

C32_WitnessObserve ==
    /\ last.op = "observe"
    /\ last.error = Ok
    /\ DOMAIN last.dones # {}
    /\ _controlled_by # <<>>
    /\ _pending_agent_ids # {}
    /\ _social_agent_ids # {}

\* The social agents that were sent an observation this tick and have left
\* the roster with their future unresolved.
LeftUnanswered ==
    {a \in DOMAIN _remote_social_agents_action :
        a \notin _social_agent_ids /\ ~_remote_social_agents_action[a].done}

\* No rostered social agent waits on a wedged controller.
RosterAnswers ==
    \A a \in _social_agent_ids \cap Awaited :
        ~_agent_buffer[_remote_social_agents_action[a].handle].wedged

\* C39: fetch_agent_actions never waits on the future of a social agent that
\* has been torn down: the futures it blocks on are futures of agents still
\* rostered, its result has no entry for a removed agent, and it returns
\* although a removed agent's future never resolves.
C39_FetchSkipsRemoved ==
    /\ [](Outstanding \subseteq _social_agent_ids)
    /\ [][last'.op = "fetch_agent_actions" /\ pc' = "idle"
          => DOMAIN actions' \subseteq DOMAIN actions \cup _social_agent_ids]_vars
    /\ (pc = "fetching" /\ RosterAnswers) ~> (pc = "idle")

C39_Witness ==
    /\ last.op = "fetch_agent_actions"
    /\ last.error = Ok
    /\ pc = "idle"
    /\ LeftUnanswered # {}
    /\ DOMAIN actions # {}
    /\ DOMAIN actions \cap LeftUnanswered = {}

\* observe() has returned.
ObserveReturned == last.op = "observe" /\ last.error = Ok

\* The ego part of C40: after observe(), filter_response_for_ego finds an
\* entry for every ego agent that is not pending in the observations, the
\* rewards, the scores and the dones.
C40_EgoFilterSucceeds ==
    ObserveReturned
    => /\ _filter_for_active_ego(observe_keys).error = Ok
       /\ _filter_for_active_ego(DOMAIN last.dones).error = Ok

\* The social part of C40: after observe(), _send_observations_to_social_agents
\* finds an observation for every social agent with a handle and without a
\* reserved action.
C40_SendSucceeds ==
    ObserveReturned
    => SendLoop(1, _remote_social_agents, ReservedFutures(_reserved_social_agent_actions),
                Observations(observe_keys, tick)).error = Ok

\* C40: the tick's observation pipeline never fails on a reachable roster
\* state: after observe(), filter_response_for_ego finds an entry for every
\* non-pending ego agent in each of observations, rewards, scores and dones,
\* and _send_observations_to_social_agents finds an observation for every
\* rostered social agent without a reserved action, also for an agent whose
\* vehicle was torn down or that was added without a vehicle.
C40_PipelineNeverFails ==
    ObserveReturned
    => /\ _filter_for_active_ego(observe_keys).error = Ok
       /\ _filter_for_active_ego(DOMAIN last.dones).error = Ok
       /\ SendLoop(1, _remote_social_agents, ReservedFutures(_reserved_social_agent_actions),
                   Observations(observe_keys, tick)).error = Ok
====
